---- MODULE Spec2Model ----
(***************************************************************************)
(* Configuration loading and live reload of gander (package loader):       *)
(* ParseConfigVariables, RecursiveParseYAMLIncludes, NewConfigFromYAML and *)
(* ConfigFilesWatcher.  Texts are sequences of one-character strings, so   *)
(* that the two regular expressions of the loader are modelled by what     *)
(* they match, character by character.                                    *)
(***************************************************************************)
EXTENDS Integers, Sequences, FiniteSets, TLC

\* ------------------------------------------------------------------------
\* Text helpers
\* ------------------------------------------------------------------------

UpperChars == {"A", "B", "C", "D", "E", "F", "G", "H", "I", "J", "K", "L", "M",
               "N", "O", "P", "Q", "R", "S", "T", "U", "V", "W", "X", "Y", "Z"}

LowerChars == {"a", "b", "c", "d", "e", "f", "g", "h", "i", "j", "k", "l", "m",
               "n", "o", "p", "q", "r", "s", "t", "u", "v", "w", "x", "y", "z"}

DigitChars == {"0", "1", "2", "3", "4", "5", "6", "7", "8", "9"}

\* [a-zA-Z]
LetterChars == UpperChars \cup LowerChars

\* [a-zA-Z0-9_-]
NameChars == LetterChars \cup DigitChars \cup {"_", "-"}

\* [A-Z0-9_]
EnvNameChars == UpperChars \cup DigitChars \cup {"_"}

\* [ \t]
BlankChars == {" ", "\t"}

\* what strings.TrimSpace removes
SpaceChars == {" ", "\t", "\n", "\r"}

\* s[i..j], empty when j < i
Sub(s, i, j) == SubSeq(s, i, j)

\* last index of the longest run of characters of C that starts at i (i-1: none)
RunEnd(s, i, C) ==
    LET ends == {j \in (i - 1)..Len(s) : \A k \in i..j : s[k] \in C}
    IN  CHOOSE j \in ends : \A k \in ends : k <= j

\* strings.TrimSpace
TrimSpace(s) ==
    LET keep == {k \in 1..Len(s) : s[k] \notin SpaceChars}
    IN  IF keep = {} THEN <<>>
        ELSE LET lo == CHOOSE k \in keep : \A m \in keep : k <= m
                 hi == CHOOSE k \in keep : \A m \in keep : m <= k
             IN  Sub(s, lo, hi)

\* index of the end of the line that contains position i (the position before
\* the next "\n", or the end of the text)
LineEnd(s, i) ==
    LET nls == {k \in i..Len(s) : s[k] = "\n"}
    IN  IF nls = {} THEN Len(s)
        ELSE (CHOOSE k \in nls : \A m \in nls : k <= m) - 1

\* PrefixStringLines that puts the prefix before the first line only
PrefixFirstLine(prefix, s) == prefix \o s

RECURSIVE PrefixFrom(_, _, _)
PrefixFrom(prefix, s, i) ==
    IF i > Len(s) THEN <<>>
    ELSE IF s[i] = "\n" THEN <<"\n">> \o prefix \o PrefixFrom(prefix, s, i + 1)
    ELSE <<s[i]>> \o PrefixFrom(prefix, s, i + 1)

\* common.PrefixStringLines: the prefix before every line of s (strings.Split
\* on "\n" gives one line more than there are newlines, the empty ones too)
PrefixStringLines(prefix, s) == prefix \o PrefixFrom(prefix, s, 1)

\* ------------------------------------------------------------------------
\* The process environment and the files outside the configuration tree
\* ------------------------------------------------------------------------

\* os.LookupEnv: A holds a value, P an absolute path, Q a relative path,
\* I a value that reads as an include directive; every other name is unset
EnvTable ==
    (<<"A">> :> <<"v">>) @@ (<<"P">> :> <<"/", "f">>) @@ (<<"Q">> :> <<"f">>)
    @@ (<<"M">> :> <<"/", "n">>)
    @@ (<<"I">> :> <<"!", "i", "n", "c", "l", "u", "d", "e", ":", " ", "b">>)

LookupEnv(name) ==
    IF name \in DOMAIN EnvTable THEN [found |-> TRUE, v |-> EnvTable[name]]
    ELSE [found |-> FALSE, v |-> <<>>]

\* files that os.ReadFile finds outside the configuration tree
SideFiles ==
    (<<"/", "f">> :> <<" ", "k", "\n">>)
    @@ (<<"/", "r", "u", "n", "/", "s", "e", "c", "r", "e", "t", "s", "/", "s">>
            :> <<"w", " ", "\n">>)

SecretsDir == <<"/", "r", "u", "n", "/", "s", "e", "c", "r", "e", "t", "s">>

ReadSideFile(path) ==
    IF path \in DOMAIN SideFiles THEN [ok |-> TRUE, data |-> SideFiles[path]]
    ELSE [ok |-> FALSE, data |-> <<>>]

\* ------------------------------------------------------------------------
\* Variable placeholders (ParseConfigVariables)
\* ------------------------------------------------------------------------

configVarTypeEnv == <<"e", "n", "v">>

configVarTypeSecret == <<"s", "e", "c", "r", "e", "t">>

configVarTypeFileFromEnv ==
    <<"r", "e", "a", "d", "F", "i", "l", "e", "F", "r", "o", "m", "E", "n", "v">>

\* a name pattern that lets every name through
envVariableNameAny(name) == Len(name) > 0

\* envVariableNamePattern ^[A-Z0-9_]+$
envVariableNamePattern(name) ==
    Len(name) > 0 /\ \A k \in 1..Len(name) : name[k] \in EnvNameChars

NoMatch == [ok |-> FALSE, prefix |-> <<>>, type |-> <<>>, name |-> <<>>, end |-> 0]

\* \$\{(?:([a-zA-Z]+):)?([a-zA-Z0-9_-]+)\} matched at position p
MatchBody(s, p) ==
    IF p + 1 > Len(s) \/ p < 1 THEN NoMatch
    ELSE IF s[p] # "$" \/ s[p + 1] # "{" THEN NoMatch
    ELSE LET e1 == RunEnd(s, p + 2, LetterChars)
             n1 == RunEnd(s, p + 2, NameChars)
         IN  IF e1 >= p + 2 /\ e1 + 1 <= Len(s) /\ s[e1 + 1] = ":"
             THEN LET e2 == RunEnd(s, e1 + 2, NameChars)
                  IN  IF e2 >= e1 + 2 /\ e2 + 1 <= Len(s) /\ s[e2 + 1] = "}"
                      THEN [ok |-> TRUE, prefix |-> <<>>,
                            type |-> Sub(s, p + 2, e1),
                            name |-> Sub(s, e1 + 2, e2), end |-> e2 + 1]
                      ELSE NoMatch
             ELSE IF n1 >= p + 2 /\ n1 + 1 <= Len(s) /\ s[n1 + 1] = "}"
             THEN [ok |-> TRUE, prefix |-> <<>>, type |-> <<>>,
                   name |-> Sub(s, p + 2, n1), end |-> n1 + 1]
             ELSE NoMatch

\* configVariablePattern (^|.)\$\{...\} matched at position i: the first
\* alternative is the start of the text (no (?m): position 1 only), the
\* second is any character but a newline (no (?s))
configVariablePattern(s, i) ==
    LET atStart == IF i = 1 THEN MatchBody(s, 1) ELSE NoMatch
        afterCh == IF i <= Len(s) /\ s[i] # "\n"
                   THEN MatchBody(s, i + 1) ELSE NoMatch
    IN  IF atStart.ok THEN atStart
        ELSE IF afterCh.ok
        THEN [afterCh EXCEPT !.prefix = <<s[i]>>]
        ELSE NoMatch

\* every path counts as absolute
IsAbsAny(path) == TRUE

\* filepath.IsAbs
IsAbs(path) == Len(path) > 0 /\ path[1] = "/"

NoError == "none"

\* a type that is not known is resolved like env
ParseConfigVariableOfTypeAsEnv(variableType, variableName) ==
    IF ~envVariableNamePattern(variableName)
    THEN [v |-> <<>>, returnOriginal |-> TRUE, err |-> NoError]
    ELSE IF ~LookupEnv(variableName).found
    THEN [v |-> <<>>, returnOriginal |-> FALSE,
          err |-> "environment variable not found"]
    ELSE [v |-> LookupEnv(variableName).v, returnOriginal |-> FALSE,
          err |-> NoError]

\* ParseConfigVariableOfType: the value, whether the original text stays,
\* and the error
ParseConfigVariableOfType(variableType, variableName) ==
    IF variableType = configVarTypeEnv
    THEN IF ~envVariableNamePattern(variableName)
         THEN [v |-> <<>>, returnOriginal |-> TRUE, err |-> NoError]
         ELSE LET e == LookupEnv(variableName)
              IN  IF ~e.found
                  THEN [v |-> <<>>, returnOriginal |-> FALSE,
                        err |-> "environment variable not found"]
                  ELSE [v |-> e.v, returnOriginal |-> FALSE, err |-> NoError]
    ELSE IF variableType = configVarTypeSecret
    THEN LET f == ReadSideFile(SecretsDir \o <<"/">> \o variableName)
         IN  IF ~f.ok
             THEN [v |-> <<>>, returnOriginal |-> FALSE,
                   err |-> "reading secret file"]
             ELSE [v |-> TrimSpace(f.data), returnOriginal |-> FALSE,
                   err |-> NoError]
    ELSE IF variableType = configVarTypeFileFromEnv
    THEN IF ~envVariableNamePattern(variableName)
         THEN [v |-> <<>>, returnOriginal |-> TRUE, err |-> NoError]
         ELSE LET e == LookupEnv(variableName)
              IN  IF ~e.found
                  THEN [v |-> <<>>, returnOriginal |-> FALSE,
                        err |-> "readFileFromEnv: environment variable not found"]
                  ELSE IF ~IsAbs(e.v)
                  THEN [v |-> <<>>, returnOriginal |-> FALSE,
                        err |-> "readFileFromEnv: file path is not absolute"]
                  ELSE LET f == ReadSideFile(e.v)
                       IN  IF ~f.ok
                           THEN [v |-> <<>>, returnOriginal |-> FALSE,
                                 err |-> "readFileFromEnv: reading file"]
                           ELSE [v |-> TrimSpace(f.data),
                                 returnOriginal |-> FALSE, err |-> NoError]
    ELSE [v |-> <<>>, returnOriginal |-> TRUE, err |-> NoError]

\* the function handed to ReplaceAllFunc without the removal of the
\* backslash: an escaped match is returned as it is
ReplaceVariableKeepBackslash(match, err) ==
    IF err # NoError THEN [out |-> <<>>, err |-> err]
    ELSE LET groups == configVariablePattern(match, 1)
         IN  IF ~groups.ok THEN [out |-> match, err |-> err]
             ELSE IF groups.prefix = <<"\\">>
             THEN [out |-> match, err |-> err]
             ELSE LET variableType ==
                          IF groups.type = <<>> THEN configVarTypeEnv
                          ELSE groups.type
                      r == ParseConfigVariableOfType(variableType, groups.name)
                  IN  IF r.err # NoError
                      THEN [out |-> <<>>, err |-> r.err]
                      ELSE IF r.returnOriginal
                      THEN [out |-> match, err |-> err]
                      ELSE [out |-> groups.prefix \o r.v, err |-> err]

\* the function ParseConfigVariables hands to ReplaceAllFunc: the replacement
\* of one match and the error latched so far
ReplaceVariable(match, err) ==
    IF err # NoError THEN [out |-> <<>>, err |-> err]
    ELSE LET groups == configVariablePattern(match, 1)
         IN  IF ~groups.ok THEN [out |-> match, err |-> err]
             ELSE IF groups.prefix = <<"\\">>
             THEN [out |-> Sub(match, 2, Len(match)), err |-> err]
             ELSE LET variableType ==
                          IF groups.type = <<>> THEN configVarTypeEnv
                          ELSE groups.type
                      r == ParseConfigVariableOfType(variableType, groups.name)
                  IN  IF r.err # NoError
                      THEN [out |-> <<>>, err |-> r.err]
                      ELSE IF r.returnOriginal
                      THEN [out |-> match, err |-> err]
                      ELSE [out |-> groups.prefix \o r.v, err |-> err]

\* where regexp.ReplaceAllFunc stands after position st.i of s, given the
\* match m of configVariablePattern there: behind the match, with the match
\* to replace, or one character on, with that character copied
ReplaceVariableScan(s, st, m) ==
    IF m.ok
    THEN [i |-> m.end + 1, match |-> Sub(s, st.i, m.end), err |-> st.err,
          out |-> st.out]
    ELSE [i |-> st.i + 1, match |-> <<>>, err |-> st.err,
          out |-> st.out \o <<s[st.i]>>]

\* the replacement r of the match appended
ReplaceVariableAppend(st, r) ==
    [i |-> st.i, err |-> r.err, out |-> st.out \o r.out]

ReplaceVariableStep(st) ==
    IF st.match = <<>> THEN [i |-> st.i, err |-> st.err, out |-> st.out]
    ELSE ReplaceVariableAppend(st, ReplaceVariable(st.match, st.err))

\* regexp.ReplaceAllFunc with configVariablePattern: the leftmost match from
\* position st.i on is replaced, and the search goes on after its end
RECURSIVE ReplaceAllVariables(_, _)
ReplaceAllVariables(s, st) ==
    IF st.i > Len(s) THEN st
    ELSE ReplaceAllVariables(s,
             ReplaceVariableStep(
                 ReplaceVariableScan(s, st, configVariablePattern(s, st.i))))

\* lines 127-131: the first error and no bytes, or the replaced bytes
ParseConfigVariablesResult(r) ==
    IF r.err # NoError THEN [out |-> <<>>, err |-> r.err]
    ELSE [out |-> r.out, err |-> NoError]

\* ParseConfigVariables
ParseConfigVariables(contents) ==
    ParseConfigVariablesResult(
        ReplaceAllVariables(contents,
                            [i |-> 1, err |-> NoError, out |-> <<>>]))

\* ------------------------------------------------------------------------
\* Paths and files
\* ------------------------------------------------------------------------

\* the segments of a path between its slashes, left to right
RECURSIVE Segments(_, _, _)
Segments(path, i, cur) ==
    IF i > Len(path) THEN <<cur>>
    ELSE IF path[i] = "/" THEN <<cur>> \o Segments(path, i + 1, <<>>)
    ELSE Segments(path, i + 1, cur \o <<path[i]>>)

\* filepath.Clean on the segments of a rooted path: empty and "." segments
\* go, ".." takes the segment before it (none at the root)
RECURSIVE CleanSegments(_, _, _)
CleanSegments(segs, i, acc) ==
    IF i > Len(segs) THEN acc
    ELSE IF segs[i] = <<>> \/ segs[i] = <<".">> THEN CleanSegments(segs, i + 1, acc)
    ELSE IF segs[i] = <<".", ".">>
    THEN CleanSegments(segs, i + 1,
                       IF acc = <<>> THEN acc ELSE Sub(acc, 1, Len(acc) - 1))
    ELSE CleanSegments(segs, i + 1, Append(acc, segs[i]))

RECURSIVE JoinSegments(_, _)
JoinSegments(segs, i) ==
    IF i > Len(segs) THEN <<>>
    ELSE <<"/">> \o segs[i] \o JoinSegments(segs, i + 1)

\* filepath.Clean of a rooted path
Clean(path) ==
    LET segs == CleanSegments(Segments(path, 1, <<>>), 1, <<>>)
    IN  IF segs = <<>> THEN <<"/">> ELSE JoinSegments(segs, 1)

\* filepath.Join(dir, path) for a rooted dir
Join(dir, path) == Clean(dir \o <<"/">> \o path)

\* the working directory of the process
Cwd == <<"/">>

\* filepath.Abs
Abs(path) == IF IsAbs(path) THEN Clean(path) ELSE Join(Cwd, path)

\* filepath.Dir of a cleaned rooted path
Dir(path) ==
    LET segs == CleanSegments(Segments(path, 1, <<>>), 1, <<>>)
    IN  IF Len(segs) <= 1 THEN <<"/">>
        ELSE JoinSegments(Sub(segs, 1, Len(segs) - 1), 1)

\* a path that holds no file
NoFile == <<"ENOENT">>

\* os.ReadFile on the configuration tree files: a function from cleaned
\* rooted paths to contents
ReadFile(files, path) ==
    LET key == Abs(path)
    IN  IF key \in DOMAIN files /\ files[key] # NoFile
        THEN [ok |-> TRUE, data |-> files[key]]
        ELSE [ok |-> FALSE, data |-> <<>>]

\* os.Stat(path) succeeds
FileExists(files, path) == ReadFile(files, path).ok

\* ------------------------------------------------------------------------
\* Include directives (RecursiveParseYAMLIncludes)
\* ------------------------------------------------------------------------

CONFIG_INCLUDE_RECURSION_DEPTH_LIMIT == 20

IncludeWord == <<"i", "n", "c", "l", "u", "d", "e", ":">>

NoInclude == [ok |-> FALSE, indent |-> <<>>, path |-> <<>>, end |-> 0]

\* configIncludePattern (?m)^([ \t]*)(?:-[ \t]*)?(?:!|\$)include:[ \t]*(.+)$
\* matched at position i
configIncludePattern(s, i) ==
    IF ~(i = 1 \/ (i >= 2 /\ i <= Len(s) + 1 /\ s[i - 1] = "\n")) THEN NoInclude
    ELSE LET indentEnd == RunEnd(s, i, BlankChars)
             q  == indentEnd + 1
             q2 == IF q <= Len(s) /\ s[q] = "-"
                   THEN RunEnd(s, q + 1, BlankChars) + 1 ELSE q
             r  == q2 + 1 + Len(IncludeWord)
             le == LineEnd(s, i)
             b  == RunEnd(s, r, BlankChars)
         IN  IF q2 > Len(s) \/ r - 1 > Len(s) THEN NoInclude
             ELSE IF s[q2] \notin {"!", "$"} \/ Sub(s, q2 + 1, r - 1) # IncludeWord
             THEN NoInclude
             ELSE IF b + 1 <= le
             THEN [ok |-> TRUE, indent |-> Sub(s, i, indentEnd),
                   path |-> Sub(s, b + 1, le), end |-> le]
             ELSE IF b >= r
             THEN [ok |-> TRUE, indent |-> Sub(s, i, indentEnd),
                   path |-> <<s[b]>>, end |-> le]
             ELSE NoInclude

\* the depth check one too early
depthLimitReached(depth) == depth >= CONFIG_INCLUDE_RECURSION_DEPTH_LIMIT

\* line 191
depthLimitExceeded(depth) == depth > CONFIG_INCLUDE_RECURSION_DEPTH_LIMIT

RECURSIVE RecursiveParseYAMLIncludes(_, _, _, _)
RECURSIVE ReplaceAllIncludes(_, _, _, _, _)

\* a relative path joined to the working directory
IncludePathFromCwd(mainFileDir, trimmed) ==
    IF IsAbs(trimmed) THEN trimmed ELSE Join(Cwd, trimmed)

\* lines 223-226: the path of the included file
IncludePathOf(mainFileDir, trimmed) ==
    IF IsAbs(trimmed) THEN trimmed ELSE Join(mainFileDir, trimmed)

\* the state of the replacement after the include of one match returned sub
AfterInclude(st, m, sub) ==
    IF sub.err # NoError
    THEN [i |-> m.end + 1, out |-> st.out, includes |-> {},
          includesLastErr |-> sub.err, reads |-> st.reads \o sub.reads]
    ELSE [i |-> m.end + 1, out |-> st.out \o PrefixStringLines(m.indent, sub.out),
          includes |-> sub.includes, includesLastErr |-> NoError,
          reads |-> st.reads \o sub.reads]

\* lines 231-233: the path joins the visited set, then the file is expanded
IncludeMatch(files, mainFileDir, depth, st, m, includeFilePath) ==
    AfterInclude(st, m,
                 RecursiveParseYAMLIncludes(files, includeFilePath,
                     st.includes \cup {includeFilePath}, depth + 1))

\* one step of regexp.ReplaceAllFunc with configIncludePattern at position
\* st.i of s, given the match m there.  st holds the bytes written so far
\* (out), the visited set (includes), the latched error (includesLastErr)
\* and the paths handed to os.ReadFile so far (reads)
IncludeStep(files, s, mainFileDir, depth, st, m) ==
    IF ~m.ok THEN [st EXCEPT !.i = @ + 1, !.out = @ \o <<s[st.i]>>]
    ELSE IF st.includesLastErr # NoError THEN [st EXCEPT !.i = m.end + 1]
    ELSE IncludeMatch(files, mainFileDir, depth, st, m,
                      IncludePathOf(mainFileDir, TrimSpace(m.path)))

ReplaceAllIncludes(files, s, mainFileDir, depth, st) ==
    IF st.i > Len(s) THEN st
    ELSE ReplaceAllIncludes(files, s, mainFileDir, depth,
             IncludeStep(files, s, mainFileDir, depth, st,
                         configIncludePattern(s, st.i)))

\* lines 242-246
IncludesResult(st) ==
    IF st.includesLastErr # NoError
    THEN [out |-> <<>>, includes |-> {}, reads |-> st.reads,
          err |-> st.includesLastErr]
    ELSE [out |-> st.out, includes |-> st.includes, reads |-> st.reads,
          err |-> NoError]

\* lines 195-246 with a substitution pass over the file's own bytes before
\* its includes are expanded and it is spliced in
ExpandFileSubstituted(files, mainFilePath, includes, depth, f) ==
    IF ~f.ok
    THEN [out |-> <<>>, includes |-> {}, reads |-> <<mainFilePath>>,
          err |-> "reading file"]
    ELSE LET v == ParseConfigVariables(f.data)
         IN  IF v.err # NoError
             THEN [out |-> <<>>, includes |-> {}, reads |-> <<mainFilePath>>,
                   err |-> v.err]
             ELSE IncludesResult(
                      ReplaceAllIncludes(files, v.out, Dir(Abs(mainFilePath)),
                          depth,
                          [i |-> 1, out |-> <<>>, includes |-> includes,
                           includesLastErr |-> NoError,
                           reads |-> <<mainFilePath>>]))

\* lines 195-246, f being what os.ReadFile returned
ExpandFile(files, mainFilePath, includes, depth, f) ==
    IF ~f.ok
    THEN [out |-> <<>>, includes |-> {}, reads |-> <<mainFilePath>>,
          err |-> "reading file"]
    ELSE IncludesResult(
             ReplaceAllIncludes(files, f.data, Dir(Abs(mainFilePath)), depth,
                 [i |-> 1, out |-> <<>>, includes |-> includes,
                  includesLastErr |-> NoError, reads |-> <<mainFilePath>>]))

\* RecursiveParseYAMLIncludes: the expanded bytes and the visited set, or the
\* error and neither; reads is the sequence of paths handed to os.ReadFile
RecursiveParseYAMLIncludes(files, mainFilePath, includes, depth) ==
    IF depthLimitExceeded(depth)
    THEN [out |-> <<>>, includes |-> {}, reads |-> <<>>,
          err |-> "recursion depth limit of 20 reached"]
    ELSE ExpandFile(files, mainFilePath, includes, depth,
                    ReadFile(files, mainFilePath))

\* ParseYAMLIncludes with the root path in the set it starts from
ParseYAMLIncludesWithRoot(files, mainFilePath) ==
    RecursiveParseYAMLIncludes(files, mainFilePath, {Abs(mainFilePath)}, 0)

\* ParseYAMLIncludes
ParseYAMLIncludes(files, mainFilePath) ==
    RecursiveParseYAMLIncludes(files, mainFilePath, {}, 0)

\* NewConfigFromYAML as far as it works on bytes: the variable substitution
\* over the whole contents it is given (the decoding that follows is
\* yaml.Unmarshal's)
NewConfigFromYAML(contents) == ParseConfigVariables(contents)

\* ------------------------------------------------------------------------
\* The configuration tree used by the watcher
\* ------------------------------------------------------------------------

\* mainFilePath and the two files it may include
RootPath == <<"/", "r">>

PathA == <<"/", "a">>

PathB == <<"/", "b">>

Paths == {RootPath, PathA, PathB}

IncludeDirective(p) == <<"!", "i", "n", "c", "l", "u", "d", "e", ":", " ">> \o p

\* contents the root file takes: it includes a, it includes b, or it holds
\* a placeholder of an unset variable and includes nothing
RootIncA == IncludeDirective(<<"a">>)

RootIncB == IncludeDirective(<<"b">>)

RootBadVar == <<"$", "{", "B", "}">>

ContentsOf(p) ==
    IF p = RootPath THEN {RootIncA, RootIncB, RootBadVar}
    ELSE IF p = PathA THEN {<<"x">>, <<"y">>}
    ELSE {<<"x">>}

\* ------------------------------------------------------------------------
\* Bounds
\* ------------------------------------------------------------------------

\* filesystem operations and watcher errors of one behaviour
MaxFsOps == 2

\* reassemblies in flight at once
MaxInflight == 2

\* write events of one behaviour of the debounce specification
MaxWrites == 3

\* filesystem operations of one behaviour of the resubscription
\* specification
MaxTreeOps == 4

\* ------------------------------------------------------------------------
\* State
\* ------------------------------------------------------------------------

VARIABLES
    files,          \* the configuration tree: path -> contents or NoFile
    fsOps,          \* filesystem operations and watcher errors so far
    mainPc,         \* the goroutine that calls ConfigFilesWatcher and shutdown
    lastContents,   \* lastContents
    lastIncludes,   \* lastIncludes
    subs,           \* paths the fsnotify watcher is subscribed to
    watcherClosed,  \* watcher.Close() was called
    events,         \* watcher.Events: events not yet received
    evPc,           \* where the event goroutine stands
    evName,         \* event.Name of the event it handles
    polls,          \* the rename polling loop: os.Stat calls made, and the
                    \* ticks the running sleep still lasts
    timer,          \* debounceTimer: "nil", "armed" or "idle"
    timerLeft,      \* ticks until an armed timer fires
    inflight,       \* running parseAndCompareBeforeCallback calls
    changes,        \* the arguments of the onChange calls, in order
    errs,           \* number of onErr calls
    watchCalls,     \* watcher.Add and watcher.Remove calls of the last
                    \* updateWatchedFiles
    hist,           \* what the properties need to remember; lockFree:
                    \* the accesses to lastContents and lastIncludes made
                    \* without the mutex once the event goroutine runs;
                    \* logged: the paths of the "Could not add file to
                    \* watcher" log lines
    doc,            \* a text handed to ParseConfigVariables, as its pieces
    pcv,            \* what ParseConfigVariables returned for it
    tree,           \* a configuration tree handed to ParseYAMLIncludes
    asm,            \* what ParseYAMLIncludes returned for it
    loaded,         \* what NewConfigFromYAML made of the assembled bytes
    config,         \* a configuration as yaml.Unmarshal decoded it
    widget,         \* a WidgetBase and the clock its methods read
    cli             \* os.Args[1:] and what ParseCliOptions returned for them

watcherVars == <<files, fsOps, mainPc, lastContents, lastIncludes, subs,
                 watcherClosed, events, evPc, evName, polls, timer, timerLeft,
                 inflight, changes, errs, watchCalls, hist>>

loaderVars == <<doc, pcv, tree, asm, loaded, config, widget, cli>>

vars == <<files, fsOps, mainPc, lastContents, lastIncludes, subs,
          watcherClosed, events, evPc, evName, polls, timer, timerLeft,
          inflight, changes, errs, watchCalls, hist, doc, pcv, tree, asm,
          loaded, config, widget, cli>>

NotRun == [err |-> "not run"]

LoaderIdle ==
    /\ doc = <<>>
    /\ pcv = NotRun
    /\ tree = <<>>
    /\ asm = NotRun
    /\ loaded = NotRun
    /\ config = NotRun
    /\ widget = NotRun
    /\ cli = NotRun

\* ------------------------------------------------------------------------
\* ConfigFilesWatcher
\* ------------------------------------------------------------------------

\* debounceDuration, 500 ms, in ticks of 100 ms
debounceDuration == 5

\* the attempts of the rename polling loop (for range 10)
PollAttempts == 10

\* time.Sleep(200 * time.Millisecond) of the polling loop, in ticks of 100 ms
SleepTicks == 2

\* the trees the owner may have loaded before it starts the watcher
InitialTrees ==
    {f \in [Paths -> {RootIncA, RootIncB, <<"x">>, <<"y">>}] :
        /\ f[RootPath] \in {RootIncA, RootIncB}
        /\ f[PathA] = <<"x">>
        /\ f[PathB] = <<"x">>}

\* watcher.Add(filePath) succeeds: the watcher is open and the file exists
AddSucceeds(fs, closed, filePath) == ~closed /\ FileExists(fs, filePath)

\* updateWatchedFiles without its first loop: nothing is unsubscribed
updateWatchedFilesKeepAll(previousWatched, newWatched, current, fs, closed) ==
    LET adds == {p \in newWatched : p \notin previousWatched}
    IN  [removes |-> {},
         adds    |-> adds,
         failed  |-> {p \in adds : ~AddSucceeds(fs, closed, p)},
         subs    |-> current \cup {p \in adds : AddSucceeds(fs, closed, p)}]

\* updateWatchedFiles: the Remove and Add calls it issues, the paths whose
\* Add failed, which it logs, and the subscriptions the calls leave
updateWatchedFiles(previousWatched, newWatched, current, fs, closed) ==
    LET removes == {p \in previousWatched : p \notin newWatched}
        adds    == {p \in newWatched : p \notin previousWatched}
    IN  [removes |-> removes,
         adds    |-> adds,
         failed  |-> {p \in adds : ~AddSucceeds(fs, closed, p)},
         subs    |-> (current \ removes)
                         \cup {p \in adds : AddSucceeds(fs, closed, p)}]

\* parseAndCompareBeforeCallback under the lock without the comparison of
\* line 311: onChange is called whatever the bytes
compareAlwaysCallback(cur, contents, includes, current, fs, closed) ==
    LET u == IF cur.includes # includes
             THEN [removes |-> {p \in includes : p \notin cur.includes},
                   adds    |-> {p \in cur.includes : p \notin includes},
                   failed  |-> {p \in cur.includes :
                                 p \notin includes /\ ~AddSucceeds(fs, closed, p)},
                   subs    |-> (current \ {p \in includes : p \notin cur.includes})
                                 \cup {p \in cur.includes :
                                         p \notin includes /\ AddSucceeds(fs, closed, p)}]
             ELSE [removes |-> {}, adds |-> {}, failed |-> {},
                   subs |-> current]
    IN  [lastIncludes |-> cur.includes,
         subs         |-> u.subs,
         logged       |-> u.failed,
         calls        |-> [adds |-> u.adds, removes |-> u.removes],
         lastContents |-> cur.out,
         onChange     |-> <<cur.out>>]

\* parseAndCompareBeforeCallback under the lock that gives up when an Add
\* fails: the tracked set and the bytes stay, onChange is not called
compareUnlessAddFails(cur, contents, includes, current, fs, closed) ==
    LET u == IF cur.includes # includes
             THEN updateWatchedFiles(includes, cur.includes, current, fs, closed)
             ELSE [removes |-> {}, adds |-> {}, failed |-> {},
                   subs |-> current]
        ok == u.failed = {}
    IN  [lastIncludes |-> IF ok /\ cur.includes # includes THEN cur.includes
                          ELSE includes,
         subs         |-> u.subs,
         logged       |-> u.failed,
         calls        |-> [adds |-> u.adds, removes |-> u.removes],
         lastContents |-> IF ok /\ contents # cur.out THEN cur.out
                          ELSE contents,
         onChange     |-> IF ok /\ contents # cur.out THEN <<cur.out>>
                          ELSE <<>>]

\* parseAndCompareBeforeCallback under the lock (lines 303-314): cur is the
\* assembly, with the root path added to its include set
compareBeforeCallback(cur, contents, includes, current, fs, closed) ==
    LET u == IF cur.includes # includes
             THEN updateWatchedFiles(includes, cur.includes, current, fs, closed)
             ELSE [removes |-> {}, adds |-> {}, failed |-> {},
                   subs |-> current]
    IN  [lastIncludes |-> IF cur.includes # includes THEN cur.includes
                          ELSE includes,
         subs         |-> u.subs,
         logged       |-> u.failed,
         calls        |-> [adds |-> u.adds, removes |-> u.removes],
         lastContents |-> IF contents # cur.out THEN cur.out ELSE contents,
         onChange     |-> IF contents # cur.out THEN <<cur.out>> ELSE <<>>]

\* debouncedParseAndCompareBeforeCallback without Stop and Reset: a timer
\* that is armed keeps its deadline
debouncedWithoutReset(tm, left) ==
    IF tm = "armed" THEN [timer |-> "armed", left |-> left]
    ELSE [timer |-> "armed", left |-> debounceDuration]

\* debouncedParseAndCompareBeforeCallback: a timer that exists is stopped and
\* reset, otherwise one is created; either way it fires debounceDuration
\* from now
debouncedParseAndCompareBeforeCallback(tm, left) ==
    IF tm # "nil" THEN [timer |-> "armed", left |-> debounceDuration]
    ELSE [timer |-> "armed", left |-> debounceDuration]

\* deleteLastInclude that deletes nothing
deleteLastIncludeNothing(includes, filePath) == includes

\* deleteLastInclude (lines 328-333), under the lock
deleteLastInclude(includes, filePath) == includes \ {Abs(filePath)}

Min(a, b) == IF a < b THEN a ELSE b

RemoveAt(seq, k) == Sub(seq, 1, k - 1) \o Sub(seq, k + 1, Len(seq))

HistInit ==
    [age |-> debounceDuration + 1, triggers |-> 0, bursts |-> 0, fires |-> 0,
     exactGap |-> FALSE, firedAt |-> {}, reads |-> 0, commits |-> 0,
     initAdds |-> {}, initSubs |-> {}, initPresent |-> {},
     initContents |-> <<>>, initIncludes |-> {}, lockFree |-> {},
     logged |-> {},
     initCalls |-> 0, initDelivered |-> <<>>]

Init ==
    /\ files \in InitialTrees
    /\ fsOps = 0
    /\ mainPc = "init"
    /\ lastContents = ParseYAMLIncludes(files, RootPath).out
    /\ lastIncludes = ParseYAMLIncludes(files, RootPath).includes
    /\ subs = {}
    /\ watcherClosed = FALSE
    /\ events = <<>>
    /\ evPc = "notStarted"
    /\ evName = <<>>
    /\ polls = [stats |-> 0, sleep |-> 0]
    /\ timer = "nil"
    /\ timerLeft = 0
    /\ inflight = <<>>
    /\ changes = <<>>
    /\ errs = 0
    /\ watchCalls = [adds |-> {}, removes |-> {}]
    /\ hist = HistInit
    /\ LoaderIdle

\* ConfigFilesWatcher without line 262: the root path is not added to the
\* tracked set, only the includes are watched
StartWatcherIncludesOnly ==
    /\ mainPc = "init"
    /\ LET u == [removes |-> {}, adds |-> lastIncludes,
                 subs |-> subs \cup {p \in lastIncludes :
                                        AddSucceeds(files, watcherClosed, p)}]
       IN  /\ lastIncludes' = lastIncludes
           /\ subs' = u.subs
           /\ watchCalls' = [adds |-> u.adds, removes |-> u.removes]
           /\ hist' = [hist EXCEPT !.initAdds = u.adds,
                                   !.initSubs = u.subs,
                                   !.initPresent =
                                       {p \in Paths : FileExists(files, p)},
                                   !.initContents = lastContents,
                                   !.initIncludes = lastIncludes,
                                   !.logged = lastIncludes \ u.subs]
    /\ mainPc' = "started"
    /\ evPc' = "recv"
    /\ UNCHANGED <<files, fsOps, lastContents, watcherClosed, events, evName,
                   polls, timer, timerLeft, inflight, changes, errs>>
    /\ UNCHANGED loaderVars

\* ConfigFilesWatcher up to the start of the event goroutine (lines 256-378)
StartWatcher ==
    /\ mainPc = "init"
    /\ LET withRoot == lastIncludes \cup {Abs(RootPath)}
           u == updateWatchedFiles({}, withRoot, subs, files, watcherClosed)
       IN  /\ lastIncludes' = withRoot
           /\ subs' = u.subs
           /\ watchCalls' = [adds |-> u.adds, removes |-> u.removes]
           /\ hist' = [hist EXCEPT !.initAdds = u.adds,
                                   !.initSubs = u.subs,
                                   !.initPresent =
                                       {p \in Paths : FileExists(files, p)},
                                   !.initContents = lastContents,
                                   !.initIncludes = lastIncludes,
                                   !.logged = u.failed]
    /\ mainPc' = "started"
    /\ evPc' = "recv"
    /\ UNCHANGED <<files, fsOps, lastContents, watcherClosed, events, evName,
                   polls, timer, timerLeft, inflight, changes, errs>>
    /\ UNCHANGED loaderVars

\* onChange(lastContents) and the return of the shutdown function
\* (lines 380-388).  The event goroutine runs by now, and lastContents is
\* read here without mu.Lock()
InitialOnChange ==
    /\ mainPc = "started"
    /\ changes' = Append(changes, lastContents)
    /\ hist' = [hist EXCEPT !.initCalls = @ + 1,
                            !.initDelivered = lastContents,
                            !.lockFree = @ \cup {"read of lastContents"}]
    /\ mainPc' = "returned"
    /\ UNCHANGED <<files, fsOps, lastContents, lastIncludes, subs,
                   watcherClosed, events, evPc, evName, polls, timer,
                   timerLeft, inflight, errs, watchCalls>>
    /\ UNCHANGED loaderVars

\* the shutdown function, first half: debounceTimer.Stop() when the
\* goroutine that shuts down sees a timer
ShutdownStop ==
    /\ mainPc = "returned"
    /\ timer' = IF timer = "armed" THEN "idle" ELSE timer
    /\ mainPc' = "closing"
    /\ UNCHANGED <<files, fsOps, lastContents, lastIncludes, subs,
                   watcherClosed, events, evPc, evName, polls, timerLeft,
                   inflight, changes, errs, watchCalls, hist>>
    /\ UNCHANGED loaderVars

\* the same, when the unsynchronised read of debounceTimer still yields nil
\* although the event goroutine has set it: nothing is stopped
ShutdownStopStale ==
    /\ mainPc = "returned"
    /\ timer # "nil"
    /\ mainPc' = "closing"
    /\ UNCHANGED <<files, fsOps, lastContents, lastIncludes, subs,
                   watcherClosed, events, evPc, evName, polls, timer,
                   timerLeft, inflight, changes, errs, watchCalls, hist>>
    /\ UNCHANGED loaderVars

\* the shutdown function, second half: watcher.Close()
ShutdownClose ==
    /\ mainPc = "closing"
    /\ watcherClosed' = TRUE
    /\ subs' = {}
    /\ events' = <<>>
    /\ mainPc' = "closed"
    /\ UNCHANGED <<files, fsOps, lastContents, lastIncludes, evPc, evName,
                   polls, timer, timerLeft, inflight, changes, errs,
                   watchCalls, hist>>
    /\ UNCHANGED loaderVars

\* the event fsnotify queues for an operation on path p
Emitted(op, p) ==
    IF p \in subs /\ ~watcherClosed
    THEN Append(events, [op |-> op, name |-> p]) ELSE events

FsUnchanged ==
    /\ UNCHANGED <<mainPc, lastContents, lastIncludes, watcherClosed, evPc,
                   evName, polls, timer, timerLeft, inflight, changes, errs,
                   watchCalls, hist>>
    /\ UNCHANGED loaderVars

\* some process writes the file p
FsWrite(p, c) ==
    /\ files[p] # NoFile
    /\ files' = [files EXCEPT ![p] = c]
    /\ events' = Emitted("write", p)
    /\ fsOps' = fsOps + 1
    /\ UNCHANGED subs
    /\ FsUnchanged

\* some process removes the file p: its subscription goes with it
FsRemove(p) ==
    /\ files[p] # NoFile
    /\ files' = [files EXCEPT ![p] = NoFile]
    /\ events' = Emitted("remove", p)
    /\ subs' = subs \ {p}
    /\ fsOps' = fsOps + 1
    /\ FsUnchanged

\* some process renames the file p away: on linux it is no longer watched
FsRename(p) ==
    /\ files[p] # NoFile
    /\ files' = [files EXCEPT ![p] = NoFile]
    /\ events' = Emitted("rename", p)
    /\ subs' = subs \ {p}
    /\ fsOps' = fsOps + 1
    /\ FsUnchanged

\* some process creates the file p again (files are watched one by one, so
\* no event tells of it)
FsCreate(p, c) ==
    /\ files[p] = NoFile
    /\ files' = [files EXCEPT ![p] = c]
    /\ fsOps' = fsOps + 1
    /\ UNCHANGED <<events, subs>>
    /\ FsUnchanged

\* some process changes the mode of the watched file p
FsChmod(p) ==
    /\ files[p] # NoFile
    /\ p \in subs
    /\ events' = Emitted("chmod", p)
    /\ fsOps' = fsOps + 1
    /\ UNCHANGED <<files, subs>>
    /\ FsUnchanged

\* case event := <-watcher.Events (lines 338-342): a write goes on to the
\* debounced call, a rename and a remove to deleteLastInclude, any other
\* event is dropped
EvReceive ==
    /\ evPc = "recv"
    /\ events # <<>>
    /\ LET event == Head(events)
       IN  /\ evName' = event.name
           /\ evPc' = CASE event.op = "write"  -> "trigger"
                        [] event.op = "rename" -> "rename"
                        [] event.op = "remove" -> "remove"
                        [] OTHER               -> "recv"
    /\ events' = Tail(events)
    /\ UNCHANGED <<files, fsOps, mainPc, lastContents, lastIncludes, subs,
                   watcherClosed, polls, timer, timerLeft, inflight, changes,
                   errs, watchCalls, hist>>
    /\ UNCHANGED loaderVars

\* the channel is closed: the event goroutine returns (lines 339-341)
EvClosed ==
    /\ evPc = "recv"
    /\ watcherClosed
    /\ evPc' = "exited"
    /\ UNCHANGED <<files, fsOps, mainPc, lastContents, lastIncludes, subs,
                   watcherClosed, events, evName, polls, timer, timerLeft,
                   inflight, changes, errs, watchCalls, hist>>
    /\ UNCHANGED loaderVars

\* case err := <-watcher.Errors (lines 371-375)
EvWatcherError ==
    /\ evPc = "recv"
    /\ ~watcherClosed
    /\ fsOps' = fsOps + 1
    /\ errs' = errs + 1
    /\ UNCHANGED <<files, mainPc, lastContents, lastIncludes, subs,
                   watcherClosed, events, evPc, evName, polls, timer,
                   timerLeft, inflight, changes, watchCalls, hist>>
    /\ UNCHANGED loaderVars

\* rename: deleteLastInclude(event.Name), then the polling loop
EvRenameUntrack ==
    /\ evPc = "rename"
    /\ lastIncludes' = deleteLastInclude(lastIncludes, evName)
    /\ polls' = [stats |-> 0, sleep |-> 0]
    /\ evPc' = "poll"
    /\ UNCHANGED <<files, fsOps, mainPc, lastContents, subs, watcherClosed,
                   events, evName, timer, timerLeft, inflight, changes, errs,
                   watchCalls, hist>>
    /\ UNCHANGED loaderVars

\* the polling loop goes round for ever
pollAgain(stats) == "poll"

\* for range 10 (line 359), after an iteration that slept: the next
\* iteration, or the end of the loop after PollAttempts of them
nextIteration(stats) == IF stats >= PollAttempts THEN "trigger" ELSE "poll"

\* one iteration of the polling loop, first half (line 360): os.Stat ends
\* the loop when the file is there, else the sleep of line 363 starts
EvPoll ==
    /\ evPc = "poll"
    /\ IF FileExists(files, evName)
       THEN /\ evPc' = "trigger"
            /\ polls' = [stats |-> polls.stats + 1, sleep |-> 0]
       ELSE /\ evPc' = "sleep"
            /\ polls' = [stats |-> polls.stats + 1, sleep |-> SleepTicks]
    /\ UNCHANGED <<files, fsOps, mainPc, lastContents, lastIncludes, subs,
                   watcherClosed, events, evName, timer, timerLeft, inflight,
                   changes, errs, watchCalls, hist>>
    /\ UNCHANGED loaderVars

\* one iteration of the polling loop, second half: time.Sleep returns
\* (line 363) and the loop goes on or ends (line 359)
EvWake ==
    /\ evPc = "sleep"
    /\ polls.sleep = 0
    /\ evPc' = nextIteration(polls.stats)
    /\ UNCHANGED <<files, fsOps, mainPc, lastContents, lastIncludes, subs,
                   watcherClosed, events, evName, polls, timer, timerLeft,
                   inflight, changes, errs, watchCalls, hist>>
    /\ UNCHANGED loaderVars

\* remove: deleteLastInclude(event.Name)
EvRemoveUntrack ==
    /\ evPc = "remove"
    /\ lastIncludes' = deleteLastInclude(lastIncludes, evName)
    /\ evPc' = "trigger"
    /\ UNCHANGED <<files, fsOps, mainPc, lastContents, subs, watcherClosed,
                   events, evName, polls, timer, timerLeft, inflight, changes,
                   errs, watchCalls, hist>>
    /\ UNCHANGED loaderVars

\* the call of debouncedParseAndCompareBeforeCallback that ends the handling
\* of a write, a rename or a remove
EvTrigger ==
    /\ evPc = "trigger"
    /\ LET d == debouncedParseAndCompareBeforeCallback(timer, timerLeft)
       IN  /\ timer' = d.timer
           /\ timerLeft' = d.left
    /\ hist' = [hist EXCEPT
                  !.age = 0,
                  !.triggers = @ + 1,
                  !.bursts = IF hist.age >= debounceDuration THEN @ + 1 ELSE @,
                  !.exactGap = @ \/ hist.age = debounceDuration]
    /\ evPc' = "recv"
    /\ UNCHANGED <<files, fsOps, mainPc, lastContents, lastIncludes, subs,
                   watcherClosed, events, evName, polls, inflight, changes,
                   errs, watchCalls>>
    /\ UNCHANGED loaderVars

\* 100 ms pass.  An armed timer fires and a polling sleep ends when its time
\* has come.  Waiting for an event, a polling sleep and the reading of files
\* take time; the lines between the start of the event goroutine and
\* onChange(lastContents), the handling of a received event, os.Stat and the
\* section under the lock take none
Tick ==
    /\ mainPc # "started"
    /\ evPc \notin {"trigger", "rename", "remove", "poll"}
    /\ ~(evPc = "recv" /\ events # <<>>)
    /\ ~(evPc = "sleep" /\ polls.sleep = 0)
    /\ \A k \in 1..Len(inflight) : inflight[k].phase # "parsed"
    /\ ~(timer = "armed" /\ timerLeft = 0)
    /\ timer = "armed" \/ hist.age <= debounceDuration \/ evPc = "sleep"
    /\ timerLeft' = IF timer = "armed" THEN timerLeft - 1 ELSE timerLeft
    /\ polls' = IF evPc = "sleep" THEN [polls EXCEPT !.sleep = @ - 1]
                ELSE polls
    /\ hist' = [hist EXCEPT !.age = Min(@ + 1, debounceDuration + 1)]
    /\ UNCHANGED <<files, fsOps, mainPc, lastContents, lastIncludes, subs,
                   watcherClosed, events, evPc, evName, timer, inflight,
                   changes, errs, watchCalls>>
    /\ UNCHANGED loaderVars

\* the timer fires: parseAndCompareBeforeCallback starts in its own goroutine
TimerFire ==
    /\ timer = "armed"
    /\ timerLeft = 0
    /\ Len(inflight) < MaxInflight
    /\ timer' = "idle"
    /\ inflight' = Append(inflight, [phase |-> "reading", out |-> <<>>,
                                     includes |-> {}])
    /\ hist' = [hist EXCEPT !.fires = @ + 1,
                            !.firedAt = @ \cup {hist.age}]
    /\ UNCHANGED <<files, fsOps, mainPc, lastContents, lastIncludes, subs,
                   watcherClosed, events, evPc, evName, polls, timerLeft,
                   changes, errs, watchCalls>>
    /\ UNCHANGED loaderVars

\* a reassembly that runs NewConfigFromYAML on the expanded bytes as well
\* and fails when it fails
ReassembleFullPipeline(fs) ==
    LET r == ParseYAMLIncludes(fs, RootPath)
    IN  IF r.err # NoError THEN r
        ELSE LET c == NewConfigFromYAML(r.out)
             IN  IF c.err # NoError
                 THEN [out |-> <<>>, includes |-> {}, reads |-> r.reads,
                       err |-> c.err]
                 ELSE r

\* what a reassembly assembles (line 294)
Reassemble(fs) == ParseYAMLIncludes(fs, RootPath)

\* parseAndCompareBeforeCallback, lines 294-301, without line 301: the root
\* path does not join the include set
ReasmParsedWithoutRoot(k, r) ==
    IF r.err # NoError
    THEN /\ errs' = errs + 1
         /\ inflight' = RemoveAt(inflight, k)
    ELSE /\ inflight' = [inflight EXCEPT ![k] =
                            [phase |-> "parsed", out |-> r.out,
                             includes |-> r.includes]]
         /\ errs' = errs

\* parseAndCompareBeforeCallback, lines 294-301, without the onErr call
ReasmParsedSilently(k, r) ==
    IF r.err # NoError
    THEN /\ errs' = errs
         /\ inflight' = RemoveAt(inflight, k)
    ELSE /\ inflight' = [inflight EXCEPT ![k] =
                            [phase |-> "parsed", out |-> r.out,
                             includes |-> r.includes \cup {Abs(RootPath)}]]
         /\ errs' = errs

\* parseAndCompareBeforeCallback, lines 294-301, r being the assembly:
\* onErr and return when it failed, else the root path joins its include set
ReasmParsed(k, r) ==
    IF r.err # NoError
    THEN /\ errs' = errs + 1
         /\ inflight' = RemoveAt(inflight, k)
    ELSE /\ inflight' = [inflight EXCEPT ![k] =
                            [phase |-> "parsed", out |-> r.out,
                             includes |-> r.includes \cup {Abs(RootPath)}]]
         /\ errs' = errs

ReasmParse(k) ==
    /\ inflight[k].phase = "reading"
    /\ ReasmParsed(k, Reassemble(files))
    /\ hist' = [hist EXCEPT !.reads = @ + 1]
    /\ UNCHANGED <<files, fsOps, mainPc, lastContents, lastIncludes, subs,
                   watcherClosed, events, evPc, evName, polls, timer,
                   timerLeft, changes, watchCalls>>
    /\ UNCHANGED loaderVars

\* the results of compareBeforeCallback stored
ReasmCommitted(c) ==
    /\ lastIncludes' = c.lastIncludes
    /\ subs' = c.subs
    /\ watchCalls' = c.calls
    /\ lastContents' = c.lastContents
    /\ changes' = changes \o c.onChange
    /\ hist' = [hist EXCEPT !.commits = @ + 1, !.logged = @ \cup c.logged]

\* parseAndCompareBeforeCallback, lines 303-314, under the lock
ReasmCommit(k) ==
    /\ inflight[k].phase = "parsed"
    /\ ReasmCommitted(compareBeforeCallback(inflight[k], lastContents,
                                            lastIncludes, subs, files,
                                            watcherClosed))
    /\ inflight' = RemoveAt(inflight, k)
    /\ UNCHANGED <<files, fsOps, mainPc, watcherClosed, events, evPc, evName,
                   polls, timer, timerLeft, errs>>
    /\ UNCHANGED loaderVars

\* the filesystem operations of one behaviour: any of them on the root file
\* and on the file a, writes on the file b
FsOperation ==
    /\ fsOps < MaxFsOps
    /\ mainPc \in {"init", "returned"}
    /\ \/ \E p \in Paths : \E c \in ContentsOf(p) : FsWrite(p, c)
       \/ \E p \in {RootPath, PathA} : FsRemove(p)
       \/ \E p \in {RootPath, PathA} : FsRename(p)
       \/ \E p \in {RootPath, PathA} : \E c \in ContentsOf(p) : FsCreate(p, c)
       \/ FsChmod(RootPath)

WatcherNext ==
    \/ StartWatcher
    \/ InitialOnChange
    \/ ShutdownStop
    \/ ShutdownStopStale
    \/ ShutdownClose
    \/ FsOperation
    \/ EvReceive
    \/ EvClosed
    \/ fsOps < MaxFsOps /\ EvWatcherError
    \/ EvRenameUntrack
    \/ EvPoll
    \/ EvWake
    \/ EvRemoveUntrack
    \/ EvTrigger
    \/ Tick
    \/ TimerFire
    \/ \E k \in 1..Len(inflight) : ReasmParse(k)
    \/ \E k \in 1..Len(inflight) : ReasmCommit(k)

Next == WatcherNext

Spec == Init /\ [][Next]_vars

\* the watcher under write events alone, never shut down
DebounceNext ==
    \/ StartWatcher
    \/ InitialOnChange
    \/ fsOps < MaxWrites /\ mainPc = "returned"
         /\ \E p \in Paths : \E c \in ContentsOf(p) : FsWrite(p, c)
    \/ EvReceive
    \/ EvTrigger
    \/ Tick
    \/ TimerFire
    \/ \E k \in 1..Len(inflight) : ReasmParse(k)
    \/ \E k \in 1..Len(inflight) : ReasmCommit(k)

SpecDebounce == Init /\ [][DebounceNext]_vars

\* the watcher under renames of the root file and of the file a, which may
\* come back as they were, never shut down
RenameNext ==
    \/ StartWatcher
    \/ InitialOnChange
    \/ fsOps < MaxFsOps /\ mainPc = "returned"
         /\ \/ \E p \in {RootPath, PathA} : FsRename(p)
            \/ FsCreate(RootPath, RootIncA)
            \/ FsCreate(PathA, <<"x">>)
    \/ EvReceive
    \/ EvRenameUntrack
    \/ EvPoll
    \/ EvWake
    \/ EvTrigger
    \/ Tick
    \/ TimerFire
    \/ \E k \in 1..Len(inflight) : ReasmParse(k)
    \/ \E k \in 1..Len(inflight) : ReasmCommit(k)

\* the Go scheduler runs every goroutine that can run: the event goroutine,
\* the timer and a reassembly that holds the lock; time passes.  How long a
\* reassembly reads its files is left open
RenameFairness ==
    /\ WF_vars(EvReceive \/ EvRenameUntrack \/ EvPoll \/ EvWake \/ EvTrigger)
    /\ WF_vars(TimerFire)
    /\ WF_vars(\E k \in 1..Len(inflight) : ReasmCommit(k))
    /\ WF_vars(Tick)

SpecRename == Init /\ [][RenameNext]_vars /\ RenameFairness

\* the watcher while the root file is renamed away and created again with
\* an include and the file a is rewritten and removed, never shut down
ResubscribeNext ==
    \/ StartWatcher
    \/ InitialOnChange
    \/ fsOps < MaxTreeOps /\ mainPc = "returned"
         /\ \/ FsRename(RootPath)
            \/ \E c \in {RootIncA, RootIncB} : FsCreate(RootPath, c)
            \/ FsWrite(PathA, <<"y">>)
            \/ FsRemove(PathA)
    \/ EvReceive
    \/ EvRenameUntrack
    \/ EvPoll
    \/ EvWake
    \/ EvRemoveUntrack
    \/ EvTrigger
    \/ Tick
    \/ TimerFire
    \/ \E k \in 1..Len(inflight) : ReasmParse(k)
    \/ \E k \in 1..Len(inflight) : ReasmCommit(k)

SpecResubscribe == Init /\ [][ResubscribeNext]_vars

\* the watcher while the file a is written, renamed away, removed and
\* created again, never shut down
ReplaceNext ==
    \/ StartWatcher
    \/ InitialOnChange
    \/ fsOps < MaxTreeOps /\ mainPc = "returned"
         /\ \/ FsWrite(PathA, <<"y">>)
            \/ FsRename(PathA)
            \/ FsRemove(PathA)
            \/ FsCreate(PathA, <<"x">>)
    \/ EvReceive
    \/ EvRenameUntrack
    \/ EvPoll
    \/ EvWake
    \/ EvRemoveUntrack
    \/ EvTrigger
    \/ Tick
    \/ TimerFire
    \/ \E k \in 1..Len(inflight) : ReasmParse(k)
    \/ \E k \in 1..Len(inflight) : ReasmCommit(k)

SpecReplace == Init /\ [][ReplaceNext]_vars

\* ------------------------------------------------------------------------
\* ConfigFilesWatcher step by step: onChange takes time, and a reassembly
\* holds mu from line 303 until onChange has returned (defer mu.Unlock())
\* ------------------------------------------------------------------------

\* write events of one behaviour of the step-by-step specification
MaxOverlapWrites == 3

\* lastRead: the rank, among the reads of the tree, of the read whose bytes
\* lastContents holds; 0 for the bytes the owner handed in
InitOverlap ==
    /\ files \in InitialTrees
    /\ fsOps = 0
    /\ mainPc = "init"
    /\ lastContents = ParseYAMLIncludes(files, RootPath).out
    /\ lastIncludes = ParseYAMLIncludes(files, RootPath).includes
    /\ subs = {}
    /\ watcherClosed = FALSE
    /\ events = <<>>
    /\ evPc = "notStarted"
    /\ evName = <<>>
    /\ polls = [stats |-> 0, sleep |-> 0]
    /\ timer = "nil"
    /\ timerLeft = 0
    /\ inflight = <<>>
    /\ changes = <<>>
    /\ errs = 0
    /\ watchCalls = [adds |-> {}, removes |-> {}]
    /\ hist = HistInit @@ [lastRead |-> 0]
    /\ LoaderIdle

\* onChange(lastContents) is called (line 380), outside mu
InitialOnChangeCalled ==
    /\ mainPc = "started"
    /\ changes' = Append(changes, lastContents)
    /\ hist' = [hist EXCEPT !.initCalls = @ + 1,
                            !.initDelivered = lastContents,
                            !.lockFree = @ \cup {"read of lastContents"}]
    /\ mainPc' = "onChange"
    /\ UNCHANGED <<files, fsOps, lastContents, lastIncludes, subs,
                   watcherClosed, events, evPc, evName, polls, timer,
                   timerLeft, inflight, errs, watchCalls>>
    /\ UNCHANGED loaderVars

\* that call returns, and ConfigFilesWatcher returns the shutdown function
InitialOnChangeReturned ==
    /\ mainPc = "onChange"
    /\ mainPc' = "returned"
    /\ UNCHANGED <<files, fsOps, lastContents, lastIncludes, subs,
                   watcherClosed, events, evPc, evName, polls, timer,
                   timerLeft, inflight, changes, errs, watchCalls, hist>>
    /\ UNCHANGED loaderVars

\* parseAndCompareBeforeCallback, lines 294-301; readAt is the rank of this
\* read among the reads of the tree
ReadFiles(k) ==
    /\ inflight[k].phase = "reading"
    /\ LET r == Reassemble(files)
       IN  IF r.err # NoError
           THEN /\ errs' = errs + 1
                /\ inflight' = RemoveAt(inflight, k)
           ELSE /\ inflight' = [inflight EXCEPT ![k] =
                                   [phase |-> "parsed", out |-> r.out,
                                    includes |-> r.includes \cup {Abs(RootPath)},
                                    readAt |-> hist.reads + 1]]
                /\ errs' = errs
    /\ hist' = [hist EXCEPT !.reads = @ + 1]
    /\ UNCHANGED <<files, fsOps, mainPc, lastContents, lastIncludes, subs,
                   watcherClosed, events, evPc, evName, polls, timer,
                   timerLeft, changes, watchCalls>>
    /\ UNCHANGED loaderVars

\* mu is held by the reassembly that is between line 303 and its return
LockHeld == \E j \in 1..Len(inflight) : inflight[j].phase = "locked"

\* parseAndCompareBeforeCallback, lines 303-313: mu.Lock(), the watch set
\* and the bytes are compared and stored, and onChange is called when the
\* bytes differ
LockAndCompare(k) ==
    /\ inflight[k].phase = "parsed"
    /\ ~LockHeld
    /\ LET c == compareBeforeCallback(inflight[k], lastContents, lastIncludes,
                                      subs, files, watcherClosed)
       IN  /\ lastIncludes' = c.lastIncludes
           /\ subs' = c.subs
           /\ watchCalls' = c.calls
           /\ lastContents' = c.lastContents
           /\ changes' = changes \o c.onChange
           /\ hist' = [hist EXCEPT !.commits = @ + 1,
                                   !.logged = @ \cup c.logged,
                                   !.lastRead = inflight[k].readAt]
           /\ inflight' = [inflight EXCEPT ![k] =
                              [phase |-> "locked", out |-> inflight[k].out,
                               includes |-> inflight[k].includes,
                               readAt |-> inflight[k].readAt,
                               calling |-> c.onChange # <<>>]]
    /\ UNCHANGED <<files, fsOps, mainPc, watcherClosed, events, evPc, evName,
                   polls, timer, timerLeft, errs>>
    /\ UNCHANGED loaderVars

\* onChange has returned, if it was called, and the deferred mu.Unlock()
\* runs (lines 304, 314-315)
Unlock(k) ==
    /\ inflight[k].phase = "locked"
    /\ inflight' = RemoveAt(inflight, k)
    /\ UNCHANGED <<files, fsOps, mainPc, lastContents, lastIncludes, subs,
                   watcherClosed, events, evPc, evName, polls, timer,
                   timerLeft, changes, errs, watchCalls, hist>>
    /\ UNCHANGED loaderVars

\* the watcher under write events alone, which may begin as soon as the
\* files are subscribed to, never shut down
OverlapNext ==
    \/ StartWatcher
    \/ InitialOnChangeCalled
    \/ InitialOnChangeReturned
    \/ fsOps < MaxOverlapWrites /\ mainPc # "init"
         /\ \E p \in Paths : \E c \in ContentsOf(p) : FsWrite(p, c)
    \/ EvReceive
    \/ EvTrigger
    \/ Tick
    \/ TimerFire
    \/ \E k \in 1..Len(inflight) : ReadFiles(k)
    \/ \E k \in 1..Len(inflight) : LockAndCompare(k)
    \/ \E k \in 1..Len(inflight) : Unlock(k)

SpecOverlap == InitOverlap /\ [][OverlapNext]_vars

\* ------------------------------------------------------------------------
\* ParseConfigVariables on documents put together from pieces
\* ------------------------------------------------------------------------

\* ${A}: a set environment variable
PieceSet == <<"$", "{", "A", "}">>

\* ${B}: an unset environment variable
PieceUnset == <<"$", "{", "B", "}">>

\* ${b}: the name fails envVariableNamePattern, the text stays
PieceLower == <<"$", "{", "b", "}">>

\* ${env:A}, ${env:B}, ${env:b}: the same three with the type written out
PieceEnvSet == <<"$", "{", "e", "n", "v", ":", "A", "}">>

PieceEnvUnset == <<"$", "{", "e", "n", "v", ":", "B", "}">>

PieceEnvLower == <<"$", "{", "e", "n", "v", ":", "b", "}">>

\* ${secret:s}: a secret that exists
PieceSecret == <<"$", "{", "s", "e", "c", "r", "e", "t", ":", "s", "}">>

\* ${secret:t}: a secret that does not exist
PieceNoSecret == <<"$", "{", "s", "e", "c", "r", "e", "t", ":", "t", "}">>

\* ${readFileFromEnv:P}: P holds the absolute path of a file
PieceFile == <<"$", "{">> \o configVarTypeFileFromEnv \o <<":", "P", "}">>

\* ${readFileFromEnv:Q}: Q holds a relative path
PieceRelFile == <<"$", "{">> \o configVarTypeFileFromEnv \o <<":", "Q", "}">>

\* ${foo:A}: no such type, the text stays
PieceUnknownType == <<"$", "{", "f", "o", "o", ":", "A", "}">>

PieceBackslash == <<"\\">>

PieceText == <<"x">>

PieceNewline == <<"\n">>

Pieces ==
    {PieceSet, PieceUnset, PieceLower, PieceEnvSet, PieceEnvUnset,
     PieceEnvLower, PieceSecret, PieceNoSecret, PieceFile, PieceRelFile,
     PieceUnknownType, PieceBackslash, PieceText, PieceNewline}

\* placeholders of a recognised type whose name passes the gate and that
\* cannot be resolved
UnresolvablePieces == {PieceUnset, PieceEnvUnset, PieceNoSecret, PieceRelFile}

\* pieces of one document
MaxPieces == 3

Documents == UNION {[1..n -> Pieces] : n \in 0..MaxPieces}

\* the text of a document: its pieces one after the other
RECURSIVE TextFrom(_, _)
TextFrom(d, i) == IF i > Len(d) THEN <<>> ELSE d[i] \o TextFrom(d, i + 1)

TextOf(d) == TextFrom(d, 1)

\* the watcher is not part of the loader specifications
WatcherIdle ==
    /\ files = <<>>
    /\ fsOps = 0
    /\ mainPc = "none"
    /\ lastContents = <<>>
    /\ lastIncludes = {}
    /\ subs = {}
    /\ watcherClosed = FALSE
    /\ events = <<>>
    /\ evPc = "none"
    /\ evName = <<>>
    /\ polls = [stats |-> 0, sleep |-> 0]
    /\ timer = "nil"
    /\ timerLeft = 0
    /\ inflight = <<>>
    /\ changes = <<>>
    /\ errs = 0
    /\ watchCalls = [adds |-> {}, removes |-> {}]
    /\ hist = HistInit

InitVars ==
    /\ WatcherIdle
    /\ doc \in Documents
    /\ pcv = NotRun
    /\ tree = <<>>
    /\ asm = NotRun
    /\ loaded = NotRun
    /\ config = NotRun
    /\ widget = NotRun
    /\ cli = NotRun

\* ParseConfigVariables(contents) on the text of the document
Substitute ==
    /\ pcv = NotRun
    /\ pcv' = ParseConfigVariables(TextOf(doc))
    /\ UNCHANGED <<doc, tree, asm, loaded, config, widget, cli>>
    /\ UNCHANGED watcherVars

NextVars == Substitute

SpecVars == InitVars /\ [][NextVars]_vars

\* ------------------------------------------------------------------------
\* ParseYAMLIncludes and NewConfigFromYAML on small configuration trees
\* ------------------------------------------------------------------------

\* the places where the root file includes a: the text before the line of
\* the directive, the blanks that open the line, the list dash, and the text
\* after the line
IncludeSites ==
    {[before |-> <<>>, indent |-> <<>>, dash |-> <<>>, after |-> <<>>],
     [before |-> <<"x", "\n">>, indent |-> <<>>, dash |-> <<>>,
      after |-> <<>>],
     [before |-> <<>>, indent |-> <<" ">>, dash |-> <<>>, after |-> <<>>],
     [before |-> <<>>, indent |-> <<" ", " ">>, dash |-> <<>>,
      after |-> <<>>],
     [before |-> <<>>, indent |-> <<" ", " ">>, dash |-> <<"-", " ">>,
      after |-> <<>>],
     [before |-> <<"x", "\n">>, indent |-> <<"\t">>, dash |-> <<>>,
      after |-> <<"\n", "y">>]}

SiteText(site) ==
    site.before \o site.indent \o site.dash \o RootIncA \o site.after

\* what the root file holds: an include of a at one of these places, or a
\* variable whose value reads as an include of b
RootTexts == {SiteText(site) : site \in IncludeSites} \cup {<<"$", "{", "I", "}">>}

\* what the file a holds: a placeholder that resolves, one that does not,
\* an escaped one, an include of b, an indented include of b, three lines
\* without and with a newline at the end, nothing
ATexts ==
    {PieceSet, PieceUnset, PieceBackslash \o PieceSet, RootIncB,
     <<" ">> \o RootIncB,
     <<"x", "\n", "y", "\n", "z">>,
     <<"x", "\n", "y", "\n", "z", "\n">>,
     <<>>}

\* what the file b holds
BTexts == {PieceText, PieceSet, PieceText \o PieceNewline \o PieceSet}

AsmTrees ==
    {f \in [Paths -> RootTexts \cup ATexts \cup BTexts] :
        /\ f[RootPath] \in RootTexts
        /\ f[PathA] \in ATexts
        /\ f[PathB] \in BTexts}

InitAsm ==
    /\ WatcherIdle
    /\ doc = <<>>
    /\ pcv = NotRun
    /\ tree \in AsmTrees
    /\ asm = NotRun
    /\ loaded = NotRun
    /\ config = NotRun
    /\ widget = NotRun
    /\ cli = NotRun

\* ParseYAMLIncludes(mainFilePath)
Expand ==
    /\ asm = NotRun
    /\ asm' = ParseYAMLIncludes(tree, RootPath)
    /\ UNCHANGED <<doc, pcv, tree, loaded, config, widget, cli>>
    /\ UNCHANGED watcherVars

\* NewConfigFromYAML(contents) on the bytes ParseYAMLIncludes returned
Load ==
    /\ asm # NotRun
    /\ asm.err = NoError
    /\ loaded = NotRun
    /\ loaded' = NewConfigFromYAML(asm.out)
    /\ UNCHANGED <<doc, pcv, tree, asm, config, widget, cli>>
    /\ UNCHANGED watcherVars

NextAsm == Expand \/ Load

SpecAsm == InitAsm /\ [][NextAsm]_vars

\* ------------------------------------------------------------------------
\* ParseYAMLIncludes on a tree with directories
\* ------------------------------------------------------------------------

\* the main file is named relative to the working directory /
DirRoot == <<"c", "/", "r">>

DirA == <<"/", "c", "/", "d", "/", "a">>

\* the three files b: in the working directory, in the directory of the
\* root file, in the directory of the file a; each holds its own text
DirB == {<<"/", "b">>, <<"/", "c", "/", "b">>, <<"/", "c", "/", "d", "/", "b">>}

DirBText(p) ==
    IF p = <<"/", "b">> THEN <<"0">>
    ELSE IF p = <<"/", "c", "/", "b">> THEN <<"1">> ELSE <<"2">>

\* how the root file names the file a, and how a names a file b
DirRootIncludes == {<<"d", "/", "a">>, <<".", "/", "d", "/", "a">>, <<"/", "c", "/", "d", "/", "a">>, <<"/", "c", "/", "d", "/", ".", ".", "/", "d", "/", "a">>}

DirAIncludes ==
    {<<"b">>, <<".", "/", "b">>, <<".", ".", "/", "b">>, <<".", ".", "/", ".", ".", "/", "b">>, <<"/", "b">>,
      <<"/", "c", "/", "b">>, <<"/", "c", "/", "d", "/", "b">>, <<"/", "c", "/", ".", "/", "b">>}

\* the trees: the root includes a, a includes a file b, and any of the
\* three files b may be missing
DirTrees ==
    {[p \in {Abs(DirRoot), DirA} \cup DirB |->
        IF p = Abs(DirRoot) THEN IncludeDirective(ri)
        ELSE IF p = DirA THEN IncludeDirective(ai)
        ELSE IF p \in present THEN DirBText(p) ELSE NoFile] :
      ri \in DirRootIncludes, ai \in DirAIncludes, present \in SUBSET DirB}

InitDirs ==
    /\ WatcherIdle
    /\ doc = <<>>
    /\ pcv = NotRun
    /\ tree \in DirTrees
    /\ asm = NotRun
    /\ loaded = NotRun
    /\ config = NotRun
    /\ widget = NotRun
    /\ cli = NotRun

\* ParseYAMLIncludes(mainFilePath) with the relative path of the main file
ExpandDirs ==
    /\ asm = NotRun
    /\ asm' = ParseYAMLIncludes(tree, DirRoot)
    /\ UNCHANGED <<doc, pcv, tree, loaded, config, widget, cli>>
    /\ UNCHANGED watcherVars

NextDirs == ExpandDirs

SpecDirs == InitDirs /\ [][NextDirs]_vars

\* ------------------------------------------------------------------------
\* ParseYAMLIncludes on chains of includes
\* ------------------------------------------------------------------------

\* the names of the files of a chain, by depth (the root first)
ChainNames ==
    <<"a", "b", "c", "d", "e", "f", "g", "h", "i", "j", "k", "l", "m", "n",
      "o", "p", "q", "r", "s", "t", "u", "v", "w", "x", "y", "z">>

\* the file at depth k of a chain
ChainPath(k) == <<"/", ChainNames[k + 1]>>

\* the depth of the deepest file of a chain
MaxChain == 22

\* how a chain ends: its last file holds text, includes the root, includes
\* itself, or includes a file that does not exist
ChainEnds == {"text", "root", "self", "missing"}

ChainLast(n, end) ==
    CASE end = "text"    -> PieceText
      [] end = "root"    -> IncludeDirective(<<ChainNames[1]>>)
      [] end = "self"    -> IncludeDirective(<<ChainNames[n + 1]>>)
      [] OTHER           -> IncludeDirective(<<"0">>)

\* the chain of n + 1 files: the file at depth k includes the one at depth
\* k + 1, with an absolute or a relative path in turn
Chain(n, end) ==
    [p \in {ChainPath(k) : k \in 0..n} |->
        LET k == CHOOSE j \in 0..n : ChainPath(j) = p
        IN  IF k = n THEN ChainLast(n, end)
            ELSE IF k % 2 = 0 THEN IncludeDirective(<<ChainNames[k + 2]>>)
            ELSE IncludeDirective(ChainPath(k + 1))]

ChainTrees == {Chain(n, end) : n \in 0..MaxChain, end \in ChainEnds}

\* RecursiveParseYAMLIncludes call by call.  A run is the call stack, one
\* frame for every call that has read its file: the contents s, the place i
\* where ReplaceAllFunc looks for the next directive, the bytes written so
\* far, mainFileDir, the indent of the directive whose file is being
\* expanded, and includesLastErr.  The depth of a call is the number of
\* frames below it
RunStart(path) ==
    [phase |-> "call", callee |-> path, stack |-> <<>>, includes |-> {},
     reads |-> <<>>, err |-> "running"]

\* the first place from i on where configIncludePattern matches (0: none)
NextInclude(s, i) ==
    LET at == {j \in i..Len(s) : configIncludePattern(s, j).ok}
    IN  IF at = {} THEN 0 ELSE CHOOSE j \in at : \A k \in at : j <= k

\* a call returns ret to the call on top of stack (lines 233-239), or to the
\* caller of ParseYAMLIncludes when there is none
Returned(run, stack, ret) ==
    IF stack = <<>>
    THEN [phase |-> "done", out |-> ret.out,
          includes |-> IF ret.err # NoError THEN {} ELSE run.includes,
          reads |-> run.reads, err |-> ret.err]
    ELSE [run EXCEPT
            !.phase = "scan",
            !.includes = IF ret.err # NoError THEN {} ELSE @,
            !.stack = [stack EXCEPT ![Len(stack)] =
                IF ret.err # NoError
                THEN [@ EXCEPT !.includesLastErr = ret.err]
                ELSE [@ EXCEPT !.out = @ \o PrefixStringLines(
                                              stack[Len(stack)].indent,
                                              ret.out)]]]

\* lines 191-209 of the call that was just made
Entered(run, f) ==
    IF depthLimitExceeded(Len(run.stack))
    THEN Returned(run, run.stack,
                  [out |-> <<>>, err |-> "recursion depth limit of 20 reached"])
    ELSE IF ~f.ok
    THEN Returned([run EXCEPT !.reads = Append(@, run.callee)], run.stack,
                  [out |-> <<>>, err |-> "reading file"])
    ELSE [run EXCEPT
            !.phase = "scan",
            !.reads = Append(@, run.callee),
            !.stack = Append(@, [s |-> f.data, i |-> 1, out |-> <<>>,
                                 dir |-> Dir(Abs(run.callee)),
                                 indent |-> <<>>,
                                 includesLastErr |-> NoError])]

\* the call on top of the stack returns the bytes it has written so far
\* together with its error
FinishedPartial(run, f) ==
    Returned(run, Sub(run.stack, 1, Len(run.stack) - 1),
             [out |-> f.out \o Sub(f.s, f.i, Len(f.s)),
              err |-> f.includesLastErr])

\* lines 242-246 of the call on top of the stack
Finished(run, f) ==
    Returned(run, Sub(run.stack, 1, Len(run.stack) - 1),
             IF f.includesLastErr # NoError
             THEN [out |-> <<>>, err |-> f.includesLastErr]
             ELSE [out |-> f.out \o Sub(f.s, f.i, Len(f.s)), err |-> NoError])

\* lines 211-233 without the check of includesLastErr on line 212
MatchedUnlatched(run, f, j, m, includeFilePath) ==
    [run EXCEPT
        !.phase = "call",
        !.callee = includeFilePath,
        !.includes = @ \cup {includeFilePath},
        !.stack[Len(run.stack)] =
            [f EXCEPT !.i = m.end + 1, !.indent = m.indent,
                      !.out = @ \o Sub(f.s, f.i, j - 1)]]

\* lines 211-233 for the directive m found at j
Matched(run, f, j, m, includeFilePath) ==
    IF f.includesLastErr # NoError
    THEN [run EXCEPT !.stack[Len(run.stack)] =
             [f EXCEPT !.i = m.end + 1, !.out = @ \o Sub(f.s, f.i, j - 1)]]
    ELSE [run EXCEPT
            !.phase = "call",
            !.callee = includeFilePath,
            !.includes = @ \cup {includeFilePath},
            !.stack[Len(run.stack)] =
                [f EXCEPT !.i = m.end + 1, !.indent = m.indent,
                          !.out = @ \o Sub(f.s, f.i, j - 1)]]

MatchedAt(run, f, j, m) ==
    Matched(run, f, j, m, IncludePathOf(f.dir, TrimSpace(m.path)))

Scanned(run, f, j) ==
    IF j = 0 THEN Finished(run, f)
    ELSE MatchedAt(run, f, j, configIncludePattern(f.s, j))

ScannedTop(run, f) == Scanned(run, f, NextInclude(f.s, f.i))

InitChain ==
    /\ WatcherIdle
    /\ doc = <<>>
    /\ pcv = NotRun
    /\ tree \in ChainTrees
    /\ asm = RunStart(ChainPath(0))
    /\ loaded = NotRun
    /\ config = NotRun
    /\ widget = NotRun
    /\ cli = NotRun

\* a call of RecursiveParseYAMLIncludes begins
EnterFile ==
    /\ asm.phase = "call"
    /\ asm' = Entered(asm, ReadFile(tree, asm.callee))
    /\ UNCHANGED <<doc, pcv, tree, loaded, config, widget, cli>>
    /\ UNCHANGED watcherVars

\* ReplaceAllFunc goes on to the next directive of the file of the call on
\* top of the stack, or to its end
ScanFile ==
    /\ asm.phase = "scan"
    /\ asm' = ScannedTop(asm, asm.stack[Len(asm.stack)])
    /\ UNCHANGED <<doc, pcv, tree, loaded, config, widget, cli>>
    /\ UNCHANGED watcherVars

NextChain == EnterFile \/ ScanFile

SpecChain == InitChain /\ [][NextChain]_vars

\* ------------------------------------------------------------------------
\* ParseYAMLIncludes on include graphs with several directives per file
\* ------------------------------------------------------------------------

PathMissing == <<"/", "m">>

\* a line of the root file: an include of a, of b or of a file that does
\* not exist
GraphRootLines == {RootIncA, RootIncB, IncludeDirective(<<"m">>)}

\* a line of a and of b: text as well
GraphLines == GraphRootLines \cup {PieceText}

\* two lines
TwoLines(l1, l2) == l1 \o PieceNewline \o l2

\* the graphs: every file holds two lines, so a and b can include
\* themselves, each other, both, or a missing file, before or after text
GraphTrees ==
    {[p \in Paths \cup {PathMissing} |->
        IF p = RootPath THEN TwoLines(r1, r2)
        ELSE IF p = PathA THEN TwoLines(a1, a2)
        ELSE IF p = PathB THEN TwoLines(b1, b2) ELSE NoFile] :
      r1 \in GraphRootLines, r2 \in GraphRootLines,
      a1 \in GraphLines, a2 \in GraphLines,
      b1 \in GraphLines, b2 \in GraphLines}

InitGraph ==
    /\ WatcherIdle
    /\ doc = <<>>
    /\ pcv = NotRun
    /\ tree \in GraphTrees
    /\ asm = RunStart(RootPath)
    /\ loaded = NotRun
    /\ config = NotRun
    /\ widget = NotRun
    /\ cli = NotRun

SpecGraph == InitGraph /\ [][NextChain]_vars

\* ParseYAMLIncludes has returned
ExpansionDone == asm.phase = "done"

\* the expansion is straight-line code of one goroutine: a call that can
\* take its next step takes it.  This is WF_vars(NextChain) with the
\* enabling condition written out: EnterFile and ScanFile are guarded by
\* the phases "call" and "scan" only, so a step is possible exactly as long
\* as the expansion has not returned
SpecGraphFair ==
    SpecGraph /\ ([]<>ExpansionDone \/ []<><<NextChain>>_vars)

\* ------------------------------------------------------------------------
\* IsConfigStateValid on decoded configurations
\* ------------------------------------------------------------------------

\* A Go string is a sequence of characters; a character outside ASCII is
\* written by its code point and takes several bytes in UTF-8
ByteWidth(c) ==
    IF c = "U+65E5" THEN 3 ELSE IF c = "U+00E9" THEN 2 ELSE 1

RECURSIVE ByteLen(_)

\* len(s) of a Go string: its length in bytes
ByteLen(s) == IF s = <<>> THEN 0 ELSE ByteWidth(s[1]) + ByteLen(Sub(s, 2, Len(s)))

\* a nil *User: what yaml.Unmarshal stores for a key of the users map whose
\* value is null
NilUser == [nil |-> TRUE]

\* the process ends with a run-time panic
Panic == "panic: nil pointer dereference"

WidthWide == <<"w", "i", "d", "e">>

WidthSlim == <<"s", "l", "i", "m">>

WidthDefault == <<"d", "e", "f", "a", "u", "l", "t">>

SizeSmall == <<"s", "m", "a", "l", "l">>

SizeFull == <<"f", "u", "l", "l">>

\* the directories os.Stat finds
ExistingPaths == {<<"/", "s">>}

\* lines 401-417: the body of the loop over the users for one username
\* (user := config.Auth.Users[username] is a pointer; user.Password reads
\* through it)
UserError(cfg, username) ==
    IF username = <<>> THEN "user has no name"
    ELSE IF ByteLen(username) < 3
    THEN "usernames must be at least 3 characters"
    ELSE IF cfg.Auth.Users[username] = NilUser THEN Panic
    ELSE IF cfg.Auth.Users[username].Password = <<>>
    THEN IF cfg.Auth.Users[username].PasswordHashString = <<>>
         THEN "user must have a password or a password-hash set"
         ELSE NoError
    ELSE IF ByteLen(cfg.Auth.Users[username].Password) < 6
    THEN "the password must be at least 6 characters"
    ELSE NoError

\* lines 400-418: the loop over the users returns at the first user that
\* fails, in the order range yields the keys of the map
UsersError(cfg, order) ==
    LET bad == {k \in 1..Len(order) : UserError(cfg, order[k]) # NoError}
    IN  IF bad = {} THEN NoError
        ELSE UserError(cfg, order[CHOOSE k \in bad : \A j \in bad : k <= j])

\* lines 459-467: the first column whose size is neither small nor full
ColumnsError(page) ==
    IF \E j \in 1..Len(page.Columns) :
           page.Columns[j].Size \notin {SizeSmall, SizeFull}
    THEN "column: size can only be either small or full"
    ELSE NoError

\* only whether the page has a full column is looked at
AnyFullColumns(page) ==
    IF \E j \in 1..Len(page.Columns) : page.Columns[j].Size = SizeFull
    THEN 1 ELSE 0

\* line 469: columnSizesCount["full"]
FullColumns(page) ==
    Cardinality({j \in 1..Len(page.Columns) : page.Columns[j].Size = SizeFull})

\* lines 427-473: the body of the loop over the pages for one page
PageError(page) ==
    IF page.Title = <<>> THEN "page has no name"
    ELSE IF page.Width # <<>>
            /\ page.Width \notin {WidthWide, WidthSlim, WidthDefault}
    THEN "page: width can only be either wide or slim"
    ELSE IF page.DesktopNavigationWidth # <<>>
            /\ page.DesktopNavigationWidth
                  \notin {WidthWide, WidthSlim, WidthDefault}
    THEN "page: desktop-navigation-width can only be either wide or slim"
    ELSE IF Len(page.Columns) = 0 THEN "page has no columns"
    ELSE IF page.Width = WidthSlim /\ Len(page.Columns) > 2
    THEN "page is slim and cannot have more than 2 columns"
    ELSE IF page.Width # WidthSlim /\ Len(page.Columns) > 3
    THEN "page has more than 3 columns"
    ELSE IF ColumnsError(page) # NoError THEN ColumnsError(page)
    ELSE IF FullColumns(page) > 2 \/ FullColumns(page) = 0
    THEN "page must have either 1 or 2 full width columns"
    ELSE NoError

\* lines 426-474: the loop over the pages returns at the first page that
\* fails
PagesError(cfg) ==
    LET bad == {i \in 1..Len(cfg.Pages) : PageError(cfg.Pages[i]) # NoError}
    IN  IF bad = {} THEN NoError
        ELSE PageError(cfg.Pages[CHOOSE i \in bad : \A j \in bad : i <= j])

\* IsConfigStateValid(config), order being the order in which range yields
\* the usernames
IsConfigStateValid(cfg, order) ==
    IF Len(cfg.Pages) = 0 THEN "no pages configured"
    ELSE IF DOMAIN cfg.Auth.Users # {} /\ cfg.Auth.SecretKey = <<>>
    THEN "secret-key must be set when users are configured"
    ELSE IF UsersError(cfg, order) # NoError THEN UsersError(cfg, order)
    ELSE IF cfg.Server.AssetsPath # <<>>
            /\ cfg.Server.AssetsPath \notin ExistingPaths
    THEN "assets directory does not exist"
    ELSE PagesError(cfg)

\* the orders in which range may yield the keys of a map
Orders(keys) ==
    {o \in [1..Cardinality(keys) -> keys] :
        \A i, j \in 1..Cardinality(keys) : i # j => o[i] # o[j]}

\* the columns a page may have
MaxColumns == 4

ColumnLists ==
    UNION {[1..n -> [Size : {SizeSmall, SizeFull, <<"b", "i", "g">>}]] : n \in 0..MaxColumns}

PageSet ==
    [Title : {<<>>, <<"t">>},
     Width : {<<>>, WidthWide, WidthSlim, WidthDefault, <<"b", "i", "g">>},
     DesktopNavigationWidth : {<<>>, WidthWide, <<"b", "i", "g">>},
     Columns : ColumnLists]

\* a page with one full and one small column at the default width
GoodPage ==
    [Title |-> <<"t">>, Width |-> <<>>, DesktopNavigationWidth |-> <<>>,
     Columns |-> <<[Size |-> SizeFull], [Size |-> SizeSmall]>>]

\* a page with three full columns
BadPage ==
    [Title |-> <<"t">>, Width |-> <<>>, DesktopNavigationWidth |-> <<>>,
     Columns |-> <<[Size |-> SizeFull], [Size |-> SizeFull], [Size |-> SizeFull]>>]

\* no page, one page of any shape, or two pages one of which is GoodPage
\* or BadPage
PageLists ==
    {<<>>} \cup {<<p>> : p \in PageSet}
    \cup {<<p, q>> : p \in {GoodPage, BadPage}, q \in {GoodPage, BadPage}}

\* usernames: empty, of 2 and 3 bytes, and of one character that takes 3
\* bytes
Usernames == {<<>>, <<"a", "b">>, <<"b", "o", "b">>, <<"U+65E5">>}

\* passwords: none, 5 and 6 bytes, and 2 characters of 3 bytes each
Passwords == {<<>>, <<"1", "2", "3", "4", "5">>, <<"1", "2", "3", "4", "5", "6">>, <<"U+65E5", "U+65E5">>}

UserSet ==
    [Password : Passwords, PasswordHashString : {<<>>, <<"h">>}]
    \cup {NilUser}

\* the users a configuration may have
MaxUsers == 2

UserMaps ==
    UNION {[names -> UserSet] :
             names \in {n \in SUBSET Usernames : Cardinality(n) <= MaxUsers}}

\* the decoded configurations: any pages without users, secret key and
\* assets path; any users and secret key with one fixed page; and an
\* assets path that exists or not, with and without a user
Configs ==
    {[Pages |-> pages,
      Auth |-> [SecretKey |-> <<>>, Users |-> <<>>],
      Server |-> [AssetsPath |-> <<>>]] : pages \in PageLists}
    \cup
    {[Pages |-> <<GoodPage>>,
      Auth |-> [SecretKey |-> key, Users |-> users],
      Server |-> [AssetsPath |-> <<>>]] :
        key \in {<<>>, <<"k">>}, users \in UserMaps}
    \cup
    {[Pages |-> pages,
      Auth |-> [SecretKey |-> <<"k">>, Users |-> users],
      Server |-> [AssetsPath |-> path]] :
        pages \in {<<GoodPage>>, <<BadPage>>},
        users \in {u \in UserMaps : DOMAIN u \subseteq {<<"b", "o", "b">>}},
        path \in {<<"/", "s">>, <<"/", "n">>}}

InitValid ==
    /\ WatcherIdle
    /\ doc = <<>>
    /\ pcv = NotRun
    /\ tree = <<>>
    /\ asm = NotRun
    /\ loaded = NotRun
    /\ config \in Configs
    /\ widget = NotRun
    /\ cli = NotRun

\* lines 44-46 of NewConfigFromYAML: IsConfigStateValid(config) on the
\* decoded configuration; its error, if any, is what NewConfigFromYAML
\* returns
Validate ==
    /\ config # NotRun
    /\ loaded = NotRun
    /\ \E order \in Orders(DOMAIN config.Auth.Users) :
          loaded' = [err |-> IsConfigStateValid(config, order)]
    /\ UNCHANGED <<doc, pcv, tree, asm, config, widget, cli>>
    /\ UNCHANGED watcherVars

NextValid == Validate

SpecValid == InitValid /\ [][NextValid]_vars

\* ------------------------------------------------------------------------
\* NewConfigFromYAML stage by stage (lines 30-82)
\* ------------------------------------------------------------------------

\* a widget, as far as loading goes: whether its Initialize() returns nil
WidgetLists ==
    {<<>>, <<[initOk |-> TRUE]>>, <<[initOk |-> FALSE]>>,
     <<[initOk |-> TRUE], [initOk |-> FALSE]>>}

\* pages with head widgets and two columns of widgets; the second column is
\* small, full or of an invalid size
LoadPages ==
    {[Title |-> <<"t">>, Width |-> <<>>, DesktopNavigationWidth |-> <<>>,
      HeadWidgets |-> head,
      Columns |-> <<[Size |-> SizeFull, Widgets |-> w1],
                    [Size |-> size, Widgets |-> w2]>>] :
        head \in WidgetLists, w1 \in WidgetLists, w2 \in WidgetLists,
        size \in {SizeSmall, <<"b", "i", "g">>}}

\* what yaml.Unmarshal returns for a text it cannot decode
Undecodable == [err |-> "yaml: unmarshal error"]

\* what yaml.Unmarshal may make of the substituted text: an error, or a
\* configuration with no page or one page, without users or with a user
\* entry that is null, and a theme with at most one preset; ok tells whether
\* Initialize() of the theme properties returns nil
LoadConfigs ==
    {Undecodable} \cup
    {[Pages |-> pages,
      Auth |-> [SecretKey |-> <<"k">>, Users |-> users],
      Server |-> [AssetsPath |-> <<>>],
      Theme |-> [ok |-> themeOk, Presets |-> presets]] :
        pages \in {<<>>} \cup {<<p>> : p \in LoadPages},
        users \in {<<>>, (<<"b", "o", "b">> :> NilUser)},
        themeOk \in BOOLEAN,
        presets \in {<<>>, <<[ok |-> TRUE]>>, <<[ok |-> FALSE]>>}}

\* the texts handed to NewConfigFromYAML: without a placeholder, with one
\* that resolves and with one that does not
LoadDocuments == {<<PieceText>>, <<PieceSet>>, <<PieceUnset>>}

InitLoad ==
    /\ WatcherIdle
    /\ doc \in LoadDocuments
    /\ pcv = NotRun
    /\ tree = <<>>
    /\ asm = NotRun
    /\ loaded = [pc |-> "substitute", ran |-> <<>>, err |-> NoError,
                 initialized |-> 0, themes |-> 0, result |-> "nil"]
    /\ config \in LoadConfigs
    /\ widget = NotRun
    /\ cli = NotRun

\* a stage that goes on to the next whatever its error
StageDoneIgnoringError(run, stage, err, next) ==
    [run EXCEPT !.ran = Append(@, stage), !.pc = next]

\* the end of a stage: "if err != nil { return nil, err }" (lines 32-34,
\* 40-42, 44-46, 53-55, 60-62, 69-71, 77-79); a nil pointer dereference
\* ends the call without a return
StageDone(run, stage, err, next) ==
    [run EXCEPT !.ran = Append(@, stage),
                !.err = err,
                !.pc = IF err = Panic THEN "panicked"
                       ELSE IF err # NoError THEN "returned"
                       ELSE next]

\* line 31: ParseConfigVariables
LoadSubstitute ==
    /\ loaded.pc = "substitute"
    /\ pcv' = ParseConfigVariables(TextOf(doc))
    /\ loaded' = StageDone(loaded, "substitute", pcv'.err, "decode")
    /\ UNCHANGED <<doc, tree, asm, config, widget, cli>>
    /\ UNCHANGED watcherVars

\* lines 36-42: yaml.Unmarshal
LoadDecode ==
    /\ loaded.pc = "decode"
    /\ loaded' = StageDone(loaded, "decode",
                           IF config = Undecodable THEN config.err
                           ELSE NoError, "validate")
    /\ UNCHANGED <<doc, pcv, tree, asm, config, widget, cli>>
    /\ UNCHANGED watcherVars

\* lines 44-46: IsConfigStateValid
LoadValidate ==
    /\ loaded.pc = "validate"
    /\ \E order \in Orders(DOMAIN config.Auth.Users) :
          loaded' = StageDone(loaded, "validate",
                              IsConfigStateValid(config, order), "widgets")
    /\ UNCHANGED <<doc, pcv, tree, asm, config, widget, cli>>
    /\ UNCHANGED watcherVars

RECURSIVE ColumnWidgets(_, _)
\* the widgets of columns c.. of a page, in the order of lines 57-63
ColumnWidgets(columns, c) ==
    IF c > Len(columns) THEN <<>>
    ELSE columns[c].Widgets \o ColumnWidgets(columns, c + 1)

RECURSIVE WidgetsInOrder(_, _)
\* the widgets of pages p.., in the order of lines 49-64: the head widgets
\* of a page, then those of its columns
WidgetsInOrder(pages, p) ==
    IF p > Len(pages) THEN <<>>
    ELSE pages[p].HeadWidgets \o ColumnWidgets(pages[p].Columns, 1)
             \o WidgetsInOrder(pages, p + 1)

\* the first element whose Initialize() fails, 0 when none does; oks[i]
\* tells whether Initialize() of the i-th element returns nil
FirstFailure(oks) ==
    IF \A i \in 1..Len(oks) : oks[i] THEN 0
    ELSE CHOOSE i \in 1..Len(oks) :
            /\ ~oks[i]
            /\ \A j \in 1..(i - 1) : oks[j]

\* lines 47-64: Initialize() on every widget until one fails
LoadWidgets ==
    /\ loaded.pc = "widgets"
    /\ LET ws == WidgetsInOrder(config.Pages, 1)
           f  == FirstFailure([i \in 1..Len(ws) |-> ws[i].initOk])
       IN  loaded' = [StageDone(loaded, "widgets",
                                IF f = 0 THEN NoError
                                ELSE "widget initialization failed", "theme")
                         EXCEPT !.initialized = IF f = 0 THEN Len(ws) ELSE f]
    /\ UNCHANGED <<doc, pcv, tree, asm, config, widget, cli>>
    /\ UNCHANGED watcherVars

\* lines 66-81: Initialize() on the theme properties and then on every
\* preset until one fails; the configuration is returned when none does
LoadTheme ==
    /\ loaded.pc = "theme"
    /\ LET ts == <<config.Theme>> \o config.Theme.Presets
           f  == FirstFailure([i \in 1..Len(ts) |-> ts[i].ok])
       IN  loaded' = [StageDone(loaded, "theme",
                                IF f = 0 THEN NoError
                                ELSE "initializing theme", "returned")
                         EXCEPT !.themes = IF f = 0 THEN Len(ts) ELSE f,
                                !.result = IF f = 0 THEN "config" ELSE "nil"]
    /\ UNCHANGED <<doc, pcv, tree, asm, config, widget, cli>>
    /\ UNCHANGED watcherVars

NextLoad ==
    \/ LoadSubstitute
    \/ LoadDecode
    \/ LoadValidate
    \/ LoadWidgets
    \/ LoadTheme

SpecLoad == InitLoad /\ [][NextLoad]_vars

\* ------------------------------------------------------------------------
\* WidgetBase: the scheduling of updates (internal/models/widget.go)
\* ------------------------------------------------------------------------

\* times are minutes since the start of some hour; time.Time{} lies before
\* every time the clock shows
ZeroTime == -1

\* cacheDuration of a widget of CacheTypeDuration, in minutes
CacheDurations == {1, 10, 30}

\* what the clock shows when the widget is created
StartTimes == {0, 58, 119}

\* minutes that pass in one behaviour
MaxMinutes == 3

\* GetNextUpdateTime (lines 261-275), now being what time.Now() returns
GetNextUpdateTime(w, now) ==
    IF w.cacheType = "CacheTypeDuration" THEN now + w.cacheDuration
    ELSE IF w.cacheType = "CacheTypeOnTheHour" THEN now + (60 - (now % 60))
    ELSE ZeroTime

\* ScheduleNextUpdate (lines 277-282)
ScheduleNextUpdate(w, now) ==
    [w EXCEPT !.nextUpdate = GetNextUpdateTime(w, now),
              !.updateRetriedTimes = 0]

\* ScheduleEarlyUpdate without the cap of lines 287-289
ScheduleEarlyUpdateUncapped(w, now, later) ==
    LET n == w.updateRetriedTimes + 1
        nextEarlyUpdate == now + n * n
        nextUsualUpdate == GetNextUpdateTime(w, later)
    IN  [w EXCEPT !.updateRetriedTimes = n,
                  !.nextUpdate = IF nextEarlyUpdate > nextUsualUpdate
                                 THEN nextUsualUpdate
                                 ELSE nextEarlyUpdate]

\* ScheduleEarlyUpdate (lines 284-301); now is what time.Now() returns on
\* line 291 and later what it returns inside GetNextUpdateTime
ScheduleEarlyUpdate(w, now, later) ==
    LET n == IF w.updateRetriedTimes + 1 > 5 THEN 5
             ELSE w.updateRetriedTimes + 1
        nextEarlyUpdate == now + n * n
        nextUsualUpdate == GetNextUpdateTime(w, later)
    IN  [w EXCEPT !.updateRetriedTimes = n,
                  !.nextUpdate = IF nextEarlyUpdate > nextUsualUpdate
                                 THEN nextUsualUpdate
                                 ELSE nextEarlyUpdate]

\* WithError (lines 231-239)
WithError(w, err) ==
    [w EXCEPT !.ContentAvailable = @ \/ err = "nil", !.Error = err]

\* WithNotice (lines 225-229)
WithNotice(w, err) == [w EXCEPT !.Notice = err]

\* CanContinueUpdateAfterHandlingErr (lines 241-259): the widget it leaves
\* and the value it returns
CanContinueUpdateAfterHandlingErr(w, err, now, later) ==
    IF err # "nil"
    THEN [w |-> WithNotice(WithError(ScheduleEarlyUpdate(w, now, later), err),
                           "nil"),
          ret |-> FALSE]
    ELSE [w |-> ScheduleNextUpdate(WithError(WithNotice(w, "nil"), "nil"),
                                   now),
          ret |-> TRUE]

\* a widget after WithCacheDuration, WithCacheOnTheHour or neither; last
\* remembers the latest call: its name, the retry counter before it and the
\* two readings of the clock it made
InitWidget ==
    /\ WatcherIdle
    /\ doc = <<>>
    /\ pcv = NotRun
    /\ tree = <<>>
    /\ asm = NotRun
    /\ loaded = NotRun
    /\ config = NotRun
    /\ cli = NotRun
    /\ \E type \in {"CacheTypeInfinite", "CacheTypeDuration",
                    "CacheTypeOnTheHour"} :
       \E duration \in CacheDurations :
       \E start \in StartTimes :
          widget = [w |-> [cacheType |-> type,
                           cacheDuration |-> IF type = "CacheTypeDuration"
                                             THEN duration ELSE 0,
                           nextUpdate |-> ZeroTime,
                           updateRetriedTimes |-> 0,
                           ContentAvailable |-> FALSE,
                           Error |-> "nil",
                           Notice |-> "nil"],
                    now |-> start,
                    passed |-> 0,
                    last |-> [call |-> "none", retried |-> 0, now |-> start,
                              later |-> start, ret |-> FALSE]]

WidgetUnchanged ==
    /\ UNCHANGED <<doc, pcv, tree, asm, loaded, config, cli>>
    /\ UNCHANGED watcherVars

\* the readings of the clock a call may make after a first one: the clock
\* may move on between the two
Later ==
    IF widget.passed < MaxMinutes THEN {widget.now, widget.now + 1}
    ELSE {widget.now}

\* a minute passes
ClockAdvance ==
    /\ widget.passed < MaxMinutes
    /\ widget' = [widget EXCEPT !.now = @ + 1, !.passed = @ + 1]
    /\ WidgetUnchanged

CallScheduleNextUpdate ==
    /\ widget' = [widget EXCEPT
                    !.w = ScheduleNextUpdate(widget.w, widget.now),
                    !.last = [call |-> "ScheduleNextUpdate",
                              retried |-> widget.w.updateRetriedTimes,
                              now |-> widget.now, later |-> widget.now,
                              ret |-> FALSE]]
    /\ WidgetUnchanged

CallScheduleEarlyUpdate ==
    /\ \E later \in Later :
          widget' = [widget EXCEPT
                       !.w = ScheduleEarlyUpdate(widget.w, widget.now, later),
                       !.now = later,
                       !.passed = @ + (later - widget.now),
                       !.last = [call |-> "ScheduleEarlyUpdate",
                                 retried |-> widget.w.updateRetriedTimes,
                                 now |-> widget.now, later |-> later,
                                 ret |-> FALSE]]
    /\ WidgetUnchanged

\* an update has ended with the error err
CallCanContinue(err) ==
    /\ \E later \in IF err = "nil" THEN {widget.now} ELSE Later :
          LET r == CanContinueUpdateAfterHandlingErr(widget.w, err,
                                                     widget.now, later)
          IN  widget' = [widget EXCEPT
                           !.w = r.w,
                           !.now = later,
                           !.passed = @ + (later - widget.now),
                           !.last = [call |-> IF err = "nil" THEN "succeeded"
                                              ELSE "failed",
                                     retried |-> widget.w.updateRetriedTimes,
                                     now |-> widget.now, later |-> later,
                                     ret |-> r.ret]]
    /\ WidgetUnchanged

NextWidget ==
    \/ ClockAdvance
    \/ CallScheduleNextUpdate
    \/ CallScheduleEarlyUpdate
    \/ CallCanContinue("nil")
    \/ CallCanContinue("error")

SpecWidget == InitWidget /\ [][NextWidget]_vars

\* ------------------------------------------------------------------------
\* ParseCliOptions (part_004, lines 69-135)
\* ------------------------------------------------------------------------

\* the commands of the usage text that take no argument
PlainCommands ==
    {"config:validate", "config:print", "sensors:print", "diagnose",
     "secret:make"}

\* the words of a command line: the commands, the forms of the version
\* request, the -config flag, an undefined flag, the end of the flags and
\* a word that is none of these
Words ==
    PlainCommands \cup {"password:hash", "mountpoint:info", "version", "-v",
                        "--version", "-config", "-x", "--", "a"}

\* words of one command line
MaxArgs == 3

CommandLines == UNION {[1..n -> Words] : n \in 0..MaxArgs}

RECURSIVE FlagsParse(_, _, _)
\* flags.Parse (line 92) from the i-th word on: the value of -config and
\* the words left, or the exit that flag.ExitOnError makes of an undefined
\* flag and of a flag without its value
FlagsParse(args, i, configPath) ==
    IF i > Len(args) THEN [exit |-> FALSE, configPath |-> configPath,
                           args |-> <<>>]
    ELSE IF args[i] = "--"
    THEN [exit |-> FALSE, configPath |-> configPath,
          args |-> Sub(args, i + 1, Len(args))]
    ELSE IF args[i] = "-config"
    THEN IF i = Len(args)
         THEN [exit |-> TRUE, configPath |-> configPath, args |-> <<>>]
         ELSE FlagsParse(args, i + 2, args[i + 1])
    ELSE IF args[i] \in {"-v", "--version", "-x"}
    THEN [exit |-> TRUE, configPath |-> configPath, args |-> <<>>]
    ELSE [exit |-> FALSE, configPath |-> configPath,
          args |-> Sub(args, i, Len(args))]

unknownCommandErr == "unknown command"

\* lines 99-129: the intent of the words left after the flags
IntentOf(args) ==
    IF Len(args) = 0 THEN [intent |-> "IntentServe", err |-> NoError]
    ELSE IF Len(args) = 1
    THEN IF args[1] = "config:validate"
         THEN [intent |-> "IntentConfigValidate", err |-> NoError]
         ELSE IF args[1] = "config:print"
         THEN [intent |-> "IntentConfigPrint", err |-> NoError]
         ELSE IF args[1] = "sensors:print"
         THEN [intent |-> "IntentSensorsPrint", err |-> NoError]
         ELSE IF args[1] = "diagnose"
         THEN [intent |-> "IntentDiagnose", err |-> NoError]
         ELSE IF args[1] = "secret:make"
         THEN [intent |-> "IntentSecretMake", err |-> NoError]
         ELSE [intent |-> "none", err |-> unknownCommandErr]
    ELSE IF Len(args) = 2
    THEN IF args[1] = "password:hash"
         THEN [intent |-> "IntentPasswordHash", err |-> NoError]
         ELSE [intent |-> "none", err |-> unknownCommandErr]
    ELSE IF Len(args) = 2
    THEN IF args[1] = "mountpoint:info"
         THEN [intent |-> "IntentMountpointInfo", err |-> NoError]
         ELSE [intent |-> "none", err |-> unknownCommandErr]
    ELSE [intent |-> "none", err |-> unknownCommandErr]

\* ParseCliOptions for os.Args[1:] = args: the process exits, or an error
\* and no options are returned, or the options
ParseCliOptions(args) ==
    IF Len(args) = 1 /\ args[1] \in {"--version", "-v", "version"}
    THEN [exit |-> FALSE, err |-> NoError, Intent |-> "IntentVersionPrint",
          ConfigPath |-> "", Args |-> <<>>]
    ELSE LET flags == FlagsParse(args, 1, "gander.yml")
             r     == IntentOf(flags.args)
         IN  IF flags.exit
             THEN [exit |-> TRUE, err |-> NoError, Intent |-> "none",
                   ConfigPath |-> "", Args |-> <<>>]
             ELSE IF r.err # NoError
             THEN [exit |-> FALSE, err |-> r.err, Intent |-> "none",
                   ConfigPath |-> "", Args |-> <<>>]
             ELSE [exit |-> FALSE, err |-> NoError, Intent |-> r.intent,
                   ConfigPath |-> flags.configPath, Args |-> flags.args]

InitCli ==
    /\ WatcherIdle
    /\ doc = <<>>
    /\ pcv = NotRun
    /\ tree = <<>>
    /\ asm = NotRun
    /\ loaded = NotRun
    /\ config = NotRun
    /\ widget = NotRun
    /\ \E args \in CommandLines : cli = [args |-> args, options |-> NotRun]

\* the program is started with the command line
ParseCli ==
    /\ cli.options = NotRun
    /\ cli' = [cli EXCEPT !.options = ParseCliOptions(cli.args)]
    /\ UNCHANGED <<doc, pcv, tree, asm, loaded, config, widget>>
    /\ UNCHANGED watcherVars

NextCli == ParseCli

SpecCli == InitCli /\ [][NextCli]_vars

\* ------------------------------------------------------------------------
\* Properties of ConfigFilesWatcher
\* ------------------------------------------------------------------------

\* C1: debounce.  As long as no trigger came exactly 500 ms after the one
\* before it (the timer and the trigger race then), every reassembly starts
\* exactly debounceDuration after the last trigger before it, an armed timer
\* is due debounceDuration after the last trigger, and the reassemblies
\* started are as many as the groups of triggers that lie less than 500 ms
\* apart: N writes inside the window start one reassembly, N writes spaced
\* beyond it start N, also after the timer has fired before
C1_Debounce ==
    ~hist.exactGap =>
        /\ hist.firedAt \subseteq {debounceDuration}
        /\ timer = "armed" =>
              /\ timerLeft = debounceDuration - hist.age
              /\ hist.fires = hist.bursts - 1
        /\ timer # "armed" => hist.fires = hist.bursts

\* three writes, the first two less than 500 ms apart, the third one after
\* the timer has fired: two reassemblies were started
C1_Witness ==
    /\ hist.triggers = 3
    /\ hist.bursts = 2
    /\ hist.fires = 2
    /\ ~hist.exactGap
    /\ timer = "idle"

\* no two consecutive onChange calls carry the same bytes
NoRepeatedDelivery ==
    \A i \in 1..(Len(changes) - 1) : changes[i] # changes[i + 1]

\* C2: the step in which a successful reassembly compares under the lock
\* calls onChange exactly when the assembled bytes differ from lastContents,
\* once and with those bytes, which become lastContents; when they are equal
\* nothing is delivered and lastContents stays.  So no two consecutive
\* deliveries carry the same bytes
C2_OnChangeIffDifferent ==
    [][/\ hist'.commits = hist.commits + 1 =>
            \E k \in 1..Len(inflight) :
                /\ inflight[k].phase = "parsed"
                /\ inflight' = RemoveAt(inflight, k)
                /\ IF inflight[k].out # lastContents
                   THEN /\ changes' = Append(changes, inflight[k].out)
                        /\ lastContents' = inflight[k].out
                   ELSE /\ changes' = changes
                        /\ lastContents' = lastContents
       /\ NoRepeatedDelivery
       /\ NoRepeatedDelivery']_vars

\* two reassemblies have compared: one delivered new bytes, the other found
\* the bytes unchanged and delivered nothing
C2_Witness ==
    /\ hist.commits = 2
    /\ Len(changes) = 2
    /\ changes[2] # changes[1]

\* C3: when the assembly of a reassembly fails, the step calls onErr once,
\* ends the attempt, and leaves the deliveries, lastContents, lastIncludes
\* and the subscriptions as they are
C3_FailedReassembly ==
    [][(hist'.reads = hist.reads + 1
          /\ ParseYAMLIncludes(files, RootPath).err # NoError) =>
            /\ errs' = errs + 1
            /\ \E k \in 1..Len(inflight) :
                  /\ inflight[k].phase = "reading"
                  /\ inflight' = RemoveAt(inflight, k)
            /\ UNCHANGED <<changes, lastContents, lastIncludes, subs,
                           watchCalls>>]_vars

\* the included file a was removed, the one reassembly that followed failed
\* and called onErr
C3_Witness ==
    /\ files[PathA] = NoFile
    /\ fsOps = 1
    /\ hist.reads = 1
    /\ errs = 1
    /\ inflight = <<>>

\* C4: in the step in which a successful reassembly compares under the
\* lock, with new its include set and the root path: when new differs from
\* lastIncludes, watcher.Remove is called for exactly the paths of
\* lastIncludes that are not in new, watcher.Add for exactly the paths of
\* new that are not in lastIncludes, the subscriptions of the paths in both
\* stay as they are, and new becomes lastIncludes; when they are equal no
\* call is made and the subscriptions stay
C4_WatchSetDiff ==
    [][hist'.commits = hist.commits + 1 =>
         \E k \in 1..Len(inflight) :
            /\ inflight[k].phase = "parsed"
            /\ inflight' = RemoveAt(inflight, k)
            /\ lastIncludes' = inflight[k].includes
            /\ IF inflight[k].includes # lastIncludes
               THEN /\ watchCalls'.removes =
                           lastIncludes \ inflight[k].includes
                    /\ watchCalls'.adds =
                           inflight[k].includes \ lastIncludes
                    /\ subs' \cap watchCalls'.removes = {}
                    /\ \A p \in lastIncludes \cap inflight[k].includes :
                           p \in subs' <=> p \in subs
               ELSE /\ watchCalls' = [adds |-> {}, removes |-> {}]
                    /\ subs' = subs]_vars

\* the root file went from including a to including b: the reassembly
\* unsubscribed a and subscribed b, and the root stayed subscribed
C4_Witness ==
    /\ hist.commits >= 1
    /\ watchCalls = [adds |-> {PathB}, removes |-> {PathA}]
    /\ subs = {RootPath, PathB}

\* C5: once the shutdown function has returned, no debounce timer is pending
C5_NoTimerAfterShutdown == mainPc = "closed" => timer # "armed"

\* C6: once the shutdown function has returned, no step calls onChange or
\* onErr
C6_ResultDiscarded ==
    [][mainPc = "closed" => changes' = changes /\ errs' = errs]_vars

HasLiveUnresolvable(d) ==
    \E i \in 1..Len(d) :
        /\ d[i] \in UnresolvablePieces
        /\ i = 1 \/ d[i - 1] # PieceBackslash

\* C9: whenever the document holds, anywhere, an unescaped placeholder of a
\* recognised type whose name passes the name gate and that cannot be
\* resolved, ParseConfigVariables returns an error and no bytes
C9_AllOrNothing ==
    (pcv.err # "not run" /\ HasLiveUnresolvable(doc)) =>
        pcv.err # NoError /\ pcv.out = <<>>

\* ------------------------------------------------------------------------
\* Properties of the order of include expansion and variable substitution
\* ------------------------------------------------------------------------

\* the number of places of s where a placeholder opens
CountPlaceholders(s) ==
    Cardinality({p \in 1..(Len(s) - 1) : s[p] = "$" /\ s[p + 1] = "{"})

RECURSIVE CountPlaceholdersRead(_, _, _)
CountPlaceholdersRead(fs, reads, i) ==
    IF i > Len(reads) THEN 0
    ELSE CountPlaceholders(fs[reads[i]]) + CountPlaceholdersRead(fs, reads, i + 1)

ChainDepth == Cardinality(DOMAIN tree) - 1

\* how the chain in tree ends
ChainEnd ==
    CHOOSE end \in ChainEnds : tree = Chain(ChainDepth, end)

RecursionLimitError == "recursion depth limit of 20 reached"

\* chains up to this depth are expanded by the operator
\* RecursiveParseYAMLIncludes as well
CompareDepth == 5

\* C11: with the root at depth 0, an expansion fails with the error of the
\* recursion limit 20 exactly when it comes to a file at a depth above 20,
\* be it down a cycle or down a long chain; it has then read the 21 files
\* at the depths 0 to 20 and not the one at depth 21, which a missing file
\* at depth 21 shows: the error is the one of the limit, not of the read.
\* A chain without cycle whose deepest file is at depth 20 or less expands.
\* No call is ever deeper than 21
C11_RecursionLimit ==
    /\ asm.phase # "done" =>
          Len(asm.stack) <= CONFIG_INCLUDE_RECURSION_DEPTH_LIMIT + 1
    /\ asm.phase = "done" =>
        /\ ChainEnd = "text" =>
              IF ChainDepth <= CONFIG_INCLUDE_RECURSION_DEPTH_LIMIT
              THEN /\ asm.err = NoError
                   /\ Len(asm.reads) = ChainDepth + 1
                   /\ asm.out = PieceText
              ELSE asm.err = RecursionLimitError
        /\ ChainEnd \in {"root", "self"} => asm.err = RecursionLimitError
        /\ ChainEnd = "missing" =>
              IF ChainDepth + 1 <= CONFIG_INCLUDE_RECURSION_DEPTH_LIMIT
              THEN asm.err = "reading file"
              ELSE asm.err = RecursionLimitError
        /\ asm.err = RecursionLimitError =>
              /\ Len(asm.reads) = CONFIG_INCLUDE_RECURSION_DEPTH_LIMIT + 1
              /\ asm.out = <<>>
              /\ asm.includes = {}
        /\ (ChainDepth <= CompareDepth /\ ChainEnd \in {"text", "missing"}) =>
              asm = [phase |-> "done"]
                        @@ ParseYAMLIncludes(tree, ChainPath(0))

\* a chain whose deepest file is at depth 21 failed with the error of the
\* limit after 21 reads
C11_Witness ==
    /\ asm.phase = "done"
    /\ ChainDepth = 21
    /\ ChainEnd = "text"
    /\ asm.err = RecursionLimitError
    /\ Len(asm.reads) = 21

\* the paths handed to os.ReadFile from the k-th on
PathsRead(reads, k) == {Abs(reads[i]) : i \in k..Len(reads)}

\* C12 as stated: the include set of a successful ParseYAMLIncludes holds
\* the path of every file that was read, the root file too
C12_EveryFileRead ==
    asm.err = NoError => PathsRead(asm.reads, 1) \subseteq asm.includes

\* C12: the include set of a successful ParseYAMLIncludes holds the path of
\* every file that was read through an include directive, directly or not,
\* and no other path; the root file, the first one read, is not in it
C12_EveryIncludedFile ==
    asm.err = NoError =>
        /\ asm.reads[1] = RootPath
        /\ asm.includes = PathsRead(asm.reads, 2)
        /\ RootPath \notin asm.includes

\* the root includes a, a includes b: the set holds a and b, not the root
C12_Witness ==
    /\ tree[RootPath] = RootIncA
    /\ tree[PathA] = RootIncB
    /\ asm.err = NoError
    /\ asm.reads = <<RootPath, PathA, PathB>>
    /\ asm.includes = {PathA, PathB}

\* ------------------------------------------------------------------------
\* Properties of the tracked include set
\* ------------------------------------------------------------------------

\* C13 as stated: once ConfigFilesWatcher has started, the root path is in
\* lastIncludes
C13_RootAlwaysTracked == mainPc # "init" => RootPath \in lastIncludes

\* C13: the start of ConfigFilesWatcher puts the root path into
\* lastIncludes, and so does every successful reassembly when it compares
\* under the lock; the root path leaves lastIncludes only through
\* deleteLastInclude on a rename or remove event for the root file itself,
\* and comes back only with the next successful reassembly
C13_RootTrackedUntilRootEvent ==
    /\ [][(mainPc = "init" /\ mainPc' # "init") =>
              RootPath \in lastIncludes']_vars
    /\ [][hist'.commits = hist.commits + 1 =>
              RootPath \in lastIncludes']_vars
    /\ [][(RootPath \in lastIncludes /\ RootPath \notin lastIncludes') =>
              /\ evPc \in {"rename", "remove"}
              /\ evName = RootPath
              /\ lastIncludes' = lastIncludes \ {RootPath}]_vars
    /\ [][(RootPath \notin lastIncludes /\ RootPath \in lastIncludes') =>
              mainPc = "init" \/ hist'.commits = hist.commits + 1]_vars

\* the root file was removed, the reassembly that followed failed: the
\* watcher runs on and the root path is not in lastIncludes
C13_Witness ==
    /\ mainPc = "returned"
    /\ files[RootPath] = NoFile
    /\ RootPath \notin lastIncludes
    /\ hist.reads = 1
    /\ errs = 1
    /\ inflight = <<>>

\* C14: once the event goroutine runs, lastContents and lastIncludes are
\* read and written only under the mutex
C14_AllUnderLock == hist.lockFree = {}

\* the event goroutine takes an event from the channel
EventReceived ==
    /\ evPc = "recv"
    /\ events # <<>>
    /\ events' = Tail(events)
    /\ watcherClosed' = watcherClosed

\* the event goroutine calls the debounced reassembly
DebouncedCalled == hist'.triggers # hist.triggers

\* C15: a rename or remove event for p is routed to the step that removes p
\* from the tracked include set, and only after that step is the debounced
\* reassembly called for it; a write event goes straight to the debounced
\* call, which leaves the tracked set alone; an event of any other kind is
\* dropped: no call, no timer, no change of the tracked set
C15_EventHandling ==
    [][/\ EventReceived =>
            /\ evName' = Head(events).name
            /\ evPc' = CASE Head(events).op = "write"  -> "trigger"
                         [] Head(events).op = "rename" -> "rename"
                         [] Head(events).op = "remove" -> "remove"
                         [] OTHER                      -> "recv"
            /\ UNCHANGED <<lastIncludes, timer, timerLeft, hist, inflight>>
       /\ (evPc \in {"rename", "remove"} /\ evPc' # evPc) =>
            /\ lastIncludes' = lastIncludes \ {evName}
            /\ evPc' = IF evPc = "rename" THEN "poll" ELSE "trigger"
            /\ UNCHANGED <<timer, timerLeft, hist, evName>>
       /\ (evPc' = "poll" /\ evPc # "poll") => evPc \in {"rename", "sleep"}
       /\ (evPc' = "sleep" /\ evPc # "sleep") => evPc = "poll"
       /\ (evPc' = "trigger" /\ evPc # "trigger") =>
            \/ evPc \in {"remove", "poll", "sleep"}
            \/ EventReceived /\ Head(events).op = "write"
       /\ DebouncedCalled =>
            /\ evPc = "trigger"
            /\ evPc' = "recv"
            /\ hist'.triggers = hist.triggers + 1
            /\ timer' = "armed"
            /\ timerLeft' = debounceDuration
            /\ UNCHANGED lastIncludes
       /\ (evPc = "trigger" /\ evPc' # "trigger") => DebouncedCalled
      ]_vars

\* a remove or rename event of the file a has been handled: a is untracked
\* and the timer runs
C15_Witness ==
    /\ evPc = "recv"
    /\ evName = PathA
    /\ files[PathA] = NoFile
    /\ PathA \notin lastIncludes
    /\ hist.triggers >= 1
    /\ timer = "armed"

\* C16: the handling of a rename event ends.  os.Stat is called at most
\* PollAttempts times for it; a call that finds the path ends the polling at
\* once; a call that does not is followed by a sleep of 200 ms before the
\* next one; and whether or not the path came back, the handling goes on to
\* the debounced call and then to the next event
C16_RenamePollingEnds ==
    /\ [](polls.stats <= PollAttempts)
    /\ [][/\ (evPc = "poll" /\ evPc' # "poll") =>
               /\ polls'.stats = polls.stats + 1
               /\ evPc' = IF FileExists(files, evName) THEN "trigger"
                          ELSE "sleep"
               /\ evPc' = "sleep" => polls'.sleep = SleepTicks
          /\ (evPc = "sleep" /\ evPc' # "sleep") =>
               /\ polls.sleep = 0
               /\ evPc' = IF polls.stats = PollAttempts THEN "trigger"
                          ELSE "poll"
          /\ polls'.sleep < polls.sleep =>
               /\ polls'.sleep = polls.sleep - 1
               /\ hist'.age = Min(hist.age + 1, debounceDuration + 1)
          /\ (evPc = "trigger" /\ evPc' # "trigger") =>
               /\ hist'.triggers = hist.triggers + 1
               /\ timer' = "armed"
         ]_vars
    /\ (evPc = "rename") ~> (evPc = "trigger")
    /\ (evPc = "trigger") ~> (evPc = "recv")

\* the path never came back: ten calls of os.Stat, then the debounced call
C16_Witness ==
    /\ polls.stats = PollAttempts
    /\ ~FileExists(files, evName)
    /\ evPc = "recv"
    /\ hist.triggers >= 1

\* the path came back during the polling, which ended early
C16_WitnessReappeared ==
    /\ polls.stats \in 2..(PollAttempts - 1)
    /\ FileExists(files, evName)
    /\ evPc = "recv"
    /\ hist.triggers >= 1

\* C17: when a reassembly reaches its locked section and watcher.Add fails
\* for a path it adds (the file is gone or the watcher is closed), onErr is
\* not called; the new include set becomes the tracked set; every other
\* added path is subscribed and the failing ones are logged and stay
\* unsubscribed; and onChange is called with the new bytes when they differ
\* from the last ones
C17_AddFailureNonFatal ==
    [][hist'.commits = hist.commits + 1 =>
         \E k \in 1..Len(inflight) :
            /\ inflight[k].phase = "parsed"
            /\ inflight' = RemoveAt(inflight, k)
            /\ LET adds == inflight[k].includes \ lastIncludes
                   failed == {p \in adds : watcherClosed \/ files[p] = NoFile}
               IN  failed # {} =>
                     /\ errs' = errs
                     /\ lastIncludes' = inflight[k].includes
                     /\ (adds \ failed) \subseteq subs'
                     /\ failed \cap subs' = {}
                     /\ hist'.logged = hist.logged \cup failed
                     /\ IF inflight[k].out # lastContents
                        THEN /\ changes' = Append(changes, inflight[k].out)
                             /\ lastContents' = inflight[k].out
                        ELSE changes' = changes]_vars

\* the root file was renamed away and created again with an include of the
\* rewritten a, and a was removed while the reassembly ran: the Add of a failed, the root
\* was subscribed again, a is tracked, and the new bytes were delivered
C17_Witness ==
    /\ hist.commits >= 1
    /\ hist.logged = {PathA}
    /\ watchCalls = [adds |-> {RootPath, PathA}, removes |-> {PathB}]
    /\ lastIncludes = {RootPath, PathA}
    /\ subs = {RootPath}
    /\ errs = 0
    /\ Len(changes) = 2
    /\ lastContents = changes[2]

\* ------------------------------------------------------------------------
\* Properties of the resolution of one placeholder
\* ------------------------------------------------------------------------

\* the pieces that hold no placeholder
PlainPieces == {PieceText, PieceNewline, PieceBackslash}

\* the document holds one placeholder, the piece i, and the pattern matches
\* it unescaped: it opens the text or follows a character of text
OnePlaceholderAt(d, i) ==
    /\ i \in 1..Len(d)
    /\ d[i] \notin PlainPieces
    /\ \A j \in 1..Len(d) : j # i => d[j] \in PlainPieces
    /\ i = 1 \/ d[i - 1] = PieceText

\* the text of the document with the piece i replaced by v
TextWith(d, i, v) ==
    TextOf(Sub(d, 1, i - 1)) \o v \o TextOf(Sub(d, i + 1, Len(d)))

\* C18: the resolution of an env placeholder, ${NAME} or ${env:NAME}.  A name
\* that fails ^[A-Z0-9_]+$ leaves the text as it is, without an error; a
\* name that passes and is not in the environment gives the error "not
\* found" and no bytes; a name that is in the environment gives the text with
\* the placeholder replaced by the value, the character before it in place
C18_EnvPlaceholder ==
    pcv.err # "not run" =>
        \A i \in 1..Len(doc) :
            OnePlaceholderAt(doc, i) =>
                /\ doc[i] \in {PieceLower, PieceEnvLower} =>
                     pcv = [out |-> TextOf(doc), err |-> NoError]
                /\ doc[i] \in {PieceUnset, PieceEnvUnset} =>
                     pcv = [out |-> <<>>,
                            err |-> "environment variable not found"]
                /\ doc[i] \in {PieceSet, PieceEnvSet} =>
                     pcv = [out |-> TextWith(doc, i, EnvTable[<<"A">>]),
                            err |-> NoError]

\* x${env:A}x became xvx
C18_Witness ==
    /\ doc = <<PieceText, PieceEnvSet, PieceText>>
    /\ pcv = [out |-> <<"x", "v", "x">>, err |-> NoError]

\* the piece i of the document is a placeholder with a backslash directly
\* before it
Escaped(d, i) ==
    i \in 2..Len(d) /\ d[i] \notin PlainPieces /\ d[i - 1] = PieceBackslash

\* the text of the document without the backslashes that escape a
\* placeholder
RECURSIVE UnescapedFrom(_, _)
UnescapedFrom(d, i) ==
    IF i > Len(d) THEN <<>>
    ELSE (IF Escaped(d, i + 1) THEN <<>> ELSE d[i]) \o UnescapedFrom(d, i + 1)

\* C19: a placeholder with a backslash directly before it is not resolved
\* and raises no error, whatever its type and whether or not its variable,
\* secret or file exists: in a document whose placeholders are all escaped
\* ParseConfigVariables returns the text with each placeholder as written
\* and exactly the escaping backslashes taken out
C19_Escaping ==
    (/\ pcv.err # "not run"
     /\ \E i \in 1..Len(doc) : Escaped(doc, i)
     /\ \A i \in 1..Len(doc) : doc[i] \notin PlainPieces => Escaped(doc, i)) =>
        pcv = [out |-> UnescapedFrom(doc, 1), err |-> NoError]

\* \${B} with B unset became ${B}
C19_Witness ==
    /\ doc = <<PieceBackslash, PieceUnset>>
    /\ pcv = [out |-> <<"$", "{", "B", "}">>, err |-> NoError]

\* ------------------------------------------------------------------------
\* Properties of the re-indentation of included content
\* ------------------------------------------------------------------------

\* the segments of s between its newlines, one more than it has newlines
RECURSIVE SplitLines(_, _, _)
SplitLines(s, i, cur) ==
    IF i > Len(s) THEN <<cur>>
    ELSE IF s[i] = "\n" THEN <<cur>> \o SplitLines(s, i + 1, <<>>)
    ELSE SplitLines(s, i + 1, cur \o <<s[i]>>)

\* the lines of a text: its segments, without the empty one that follows a
\* newline at the end, and none for the empty text
LinesOf(s) ==
    LET segs == SplitLines(s, 1, <<>>)
    IN  IF segs[Len(segs)] = <<>> THEN Sub(segs, 1, Len(segs) - 1) ELSE segs

RECURSIVE JoinLines(_, _)
JoinLines(lines, i) ==
    IF i > Len(lines) THEN <<>>
    ELSE IF i = Len(lines) THEN lines[i]
    ELSE lines[i] \o <<"\n">> \o JoinLines(lines, i + 1)

\* every one of the given lines behind the indent
Indented(indent, lines) ==
    JoinLines([k \in 1..Len(lines) |-> indent \o lines[k]], 1)

\* what the file a contributes: its own bytes, or those of b behind the
\* blanks of its directive when it includes b
ContentOfA(fs) ==
    IF fs[PathA] = RootIncB THEN fs[PathB]
    ELSE IF fs[PathA] = <<" ">> \o RootIncB
    THEN Indented(<<" ">>, SplitLines(fs[PathB], 1, <<>>))
    ELSE fs[PathA]

\* C20 as stated: where the directive is all the root file holds, the lines
\* of the output are the lines of the included file, each behind the blanks
\* captured before the directive, and no others: three lines in, three
\* lines out
C20_LineForLine ==
    (asm # NotRun /\ asm.err = NoError) =>
        \A site \in IncludeSites :
            (/\ tree[RootPath] = SiteText(site)
             /\ site.before = <<>>
             /\ site.after = <<>>) =>
                LinesOf(asm.out) =
                    [k \in 1..Len(LinesOf(ContentOfA(tree))) |->
                        site.indent \o LinesOf(ContentOfA(tree))[k]]

\* C20: the directive, with its blanks and its list dash, is replaced by the
\* segments of the included content between its newlines, joined by
\* newlines, each behind exactly the blanks captured before the directive.
\* The segments are the lines of the content, and one empty segment more
\* when the content ends in a newline or is empty
C20_SegmentForSegment ==
    (asm # NotRun /\ asm.err = NoError) =>
        \A site \in IncludeSites :
            tree[RootPath] = SiteText(site) =>
                asm.out = site.before
                            \o Indented(site.indent,
                                        SplitLines(ContentOfA(tree), 1, <<>>))
                            \o site.after

\* a file of three lines that ends in a newline, included behind a dash
\* under two blanks: three lines behind two blanks, and a fourth that holds
\* the two blanks alone
C20_Witness ==
    /\ tree[RootPath] = <<" ", " ", "-", " ">> \o RootIncA
    /\ tree[PathA] = <<"x", "\n", "y", "\n", "z", "\n">>
    /\ asm # NotRun
    /\ asm.err = NoError
    /\ asm.out = <<" ", " ", "x", "\n", " ", " ", "y", "\n",
                   " ", " ", "z", "\n", " ", " ">>

\* ------------------------------------------------------------------------
\* Properties of the resolution of include paths
\* ------------------------------------------------------------------------

\* the file the directive of the root file names, by the rule of the claim:
\* relative to /c, the directory of the root file
DirRootNames ==
    (<<"d", "/", "a">> :> <<"/", "c", "/", "d", "/", "a">>) @@ (<<".", "/", "d", "/", "a">> :> <<"/", "c", "/", "d", "/", "a">>)
    @@ (<<"/", "c", "/", "d", "/", "a">> :> <<"/", "c", "/", "d", "/", "a">>)
    @@ (<<"/", "c", "/", "d", "/", ".", ".", "/", "d", "/", "a">> :> <<"/", "c", "/", "d", "/", ".", ".", "/", "d", "/", "a">>)

\* the file the directive of a names: relative to /c/d, the directory of a
DirANames ==
    (<<"b">> :> <<"/", "c", "/", "d", "/", "b">>) @@ (<<".", "/", "b">> :> <<"/", "c", "/", "d", "/", "b">>)
    @@ (<<".", ".", "/", "b">> :> <<"/", "c", "/", "b">>) @@ (<<".", ".", "/", ".", ".", "/", "b">> :> <<"/", "b">>)
    @@ (<<"/", "b">> :> <<"/", "b">>) @@ (<<"/", "c", "/", "b">> :> <<"/", "c", "/", "b">>)
    @@ (<<"/", "c", "/", "d", "/", "b">> :> <<"/", "c", "/", "d", "/", "b">>) @@ (<<"/", "c", "/", ".", "/", "b">> :> <<"/", "c", "/", ".", "/", "b">>)

\* the path a directive holds
DirectivePath(text) == Sub(text, Len(IncludeDirective(<<>>)) + 1, Len(text))

\* C21: a relative path of a directive is joined to the directory of the
\* file that holds the directive, in the root file and in the included file
\* alike, and an absolute path is taken as written: the expansion reads
\* that file, fails when it is missing whatever the other directories hold,
\* and returns its bytes and the two paths as the include set
C21_RelativeToIncluder ==
    (asm # NotRun /\ tree \in DirTrees) =>
        LET a == DirRootNames[DirectivePath(tree[Abs(DirRoot)])]
            b == DirANames[DirectivePath(tree[DirA])]
        IN  /\ asm.reads = <<DirRoot, a, b>>
            /\ IF tree[Clean(b)] = NoFile
               THEN asm.err = "reading file" /\ asm.out = <<>>
               ELSE /\ asm.err = NoError
                    /\ asm.out = DirBText(Clean(b))
                    /\ asm.includes = {a, b}

\* a names ../b: the file b beside the root file is read although the
\* working directory and the directory of a hold a file b as well
C21_Witness ==
    /\ tree \in DirTrees
    /\ tree[Abs(DirRoot)] = IncludeDirective(<<"d", "/", "a">>)
    /\ tree[DirA] = IncludeDirective(<<".", ".", "/", "b">>)
    /\ \A p \in DirB : tree[p] # NoFile
    /\ asm # NotRun
    /\ asm.err = NoError
    /\ asm.out = <<"1">>
    /\ asm.includes = {<<"/", "c", "/", "d", "/", "a">>, <<"/", "c", "/", "b">>}

\* ------------------------------------------------------------------------
\* Properties of failing and of cyclic include expansions
\* ------------------------------------------------------------------------

\* the places of the sequence of files read where the file does not exist
MissingReads(reads) == {k \in 1..Len(reads) : tree[Abs(reads[k])] = NoFile}

\* the first line of the root file includes the missing file
RootMissingFirst ==
    Sub(tree[RootPath], 1, Len(IncludeDirective(<<"m">>)))
        = IncludeDirective(<<"m">>)

\* the call on top of the stack returns with its latched error
ReturnsError ==
    /\ asm.phase = "scan"
    /\ asm.stack[Len(asm.stack)].includesLastErr # NoError
    /\ NextInclude(asm.stack[Len(asm.stack)].s,
                   asm.stack[Len(asm.stack)].i) = 0

\* C22: an expansion in which a file could not be read or the depth limit
\* was passed ends with an error, no bytes and no include set.  The error
\* is the first one in document order: a read error is that of the first
\* missing file reached, which is the last file read, and the depth error
\* comes after more reads than the limit and before any missing file was
\* reached; a root file whose first
\* directive names a missing file fails with the read error whatever its
\* second directive would bring.  A call that returns an error to its
\* caller hands it no bytes: the caller latches the same error and its
\* output stays as it was
C22_FirstErrorOnly ==
    /\ [](asm.phase = "done" =>
            /\ asm.err = NoError => MissingReads(asm.reads) = {}
            /\ asm.err # NoError =>
                  /\ asm.out = <<>>
                  /\ asm.includes = {}
                  /\ asm.err = "reading file" =>
                        MissingReads(asm.reads) = {Len(asm.reads)}
                  /\ asm.err # "reading file" =>
                        /\ asm.err = "recursion depth limit of 20 reached"
                        /\ MissingReads(asm.reads) = {}
                        /\ Len(asm.reads) >
                               CONFIG_INCLUDE_RECURSION_DEPTH_LIMIT
            /\ RootMissingFirst =>
                  /\ asm.err = "reading file"
                  /\ asm.reads = <<RootPath, PathMissing>>)
    /\ [][ReturnsError =>
            IF Len(asm.stack) = 1
            THEN /\ asm'.phase = "done"
                 /\ asm'.out = <<>>
                 /\ asm'.err = asm.stack[1].includesLastErr
            ELSE /\ asm'.phase = "scan"
                 /\ Len(asm'.stack) = Len(asm.stack) - 1
                 /\ asm'.stack[Len(asm'.stack)].out
                       = asm.stack[Len(asm'.stack)].out
                 /\ asm'.stack[Len(asm'.stack)].includesLastErr
                       = asm.stack[Len(asm.stack)].includesLastErr]_vars

\* the root includes a and then the missing file; a holds text and then an
\* include of the missing file: the error is that of a's directive, found
\* after a had written its first line, and nothing of it is returned
C22_Witness ==
    /\ tree \in GraphTrees
    /\ tree[RootPath] = TwoLines(RootIncA, IncludeDirective(<<"m">>))
    /\ tree[PathA] = TwoLines(PieceText, IncludeDirective(<<"m">>))
    /\ asm.phase = "done"
    /\ asm.err = "reading file"
    /\ asm.reads = <<RootPath, PathA, PathMissing>>
    /\ asm.out = <<>>
    /\ asm.includes = {}

\* a nested expansion has failed: a call has latched an error, or the
\* expansion has ended with one
ExpansionFailed ==
    IF asm.phase = "done" THEN asm.err # NoError
    ELSE \E k \in 1..Len(asm.stack) : asm.stack[k].includesLastErr # NoError

\* C23: on every graph of the two-line files, with files that include
\* themselves, each other, the same file twice or a missing file, the
\* expansion ends, with the bytes or with an error; and from the moment a
\* nested expansion has failed no step reads a file
C23_TerminatesAndStopsReading ==
    /\ [](asm.phase \in {"call", "scan", "done"})
    /\ <>ExpansionDone
    /\ [][ExpansionFailed => asm'.reads = asm.reads]_vars

\* a and b include each other twice and the root includes a twice: the
\* expansion has ended with the depth error after one read per level
C23_Witness ==
    /\ tree \in GraphTrees
    /\ tree[RootPath] = TwoLines(RootIncA, RootIncA)
    /\ tree[PathA] = TwoLines(RootIncB, RootIncB)
    /\ tree[PathB] = TwoLines(RootIncA, RootIncA)
    /\ asm.phase = "done"
    /\ asm.err = "recursion depth limit of 20 reached"
    /\ Len(asm.reads) = CONFIG_INCLUDE_RECURSION_DEPTH_LIMIT + 1

\* ------------------------------------------------------------------------
\* Properties of IsConfigStateValid
\* ------------------------------------------------------------------------

\* the rule for the structure of a page
PageRule(page) ==
    /\ page.Title # <<>>
    /\ Len(page.Columns) >= 1
    /\ Len(page.Columns) <= (IF page.Width = WidthSlim THEN 2 ELSE 3)
    /\ \A j \in 1..Len(page.Columns) :
           page.Columns[j].Size = SizeSmall \/ page.Columns[j].Size = SizeFull
    /\ \E j \in 1..Len(page.Columns) : page.Columns[j].Size = SizeFull
    /\ ~\E i, j, k \in 1..Len(page.Columns) :
           /\ i < j
           /\ j < k
           /\ page.Columns[i].Size = SizeFull
           /\ page.Columns[j].Size = SizeFull
           /\ page.Columns[k].Size = SizeFull

\* width and navigation width are unset or one of wide, slim, default
WidthsRule(page) ==
    /\ page.Width \in {<<>>, WidthWide, WidthSlim, WidthDefault}
    /\ page.DesktopNavigationWidth \in {<<>>, WidthWide, WidthSlim, WidthDefault}

\* IsConfigStateValid has returned nil
Accepted == loaded # NotRun /\ loaded.err = NoError

\* IsConfigStateValid has returned an error
Rejected == loaded # NotRun /\ loaded.err \notin {NoError, Panic}

\* C24: a configuration without pages is rejected; an accepted
\* configuration has only pages with a title, between 1 and 2 columns when
\* slim and between 1 and 3 otherwise, column sizes small or full, and 1 or
\* 2 full columns; and a configuration without users and assets path whose
\* pages all follow that rule, with width and navigation width unset or one
\* of wide, slim, default, is accepted
C24_PageStructure ==
    (loaded # NotRun /\ config \in Configs) =>
        /\ Len(config.Pages) = 0 => Rejected
        /\ Accepted => \A i \in 1..Len(config.Pages) : PageRule(config.Pages[i])
        /\ (/\ DOMAIN config.Auth.Users = {}
            /\ config.Server.AssetsPath = <<>>
            /\ Len(config.Pages) > 0
            /\ \A i \in 1..Len(config.Pages) :
                   PageRule(config.Pages[i]) /\ WidthsRule(config.Pages[i]))
              => Accepted
        /\ (Len(config.Pages) = 1 /\ Len(config.Pages[1].Columns) = 4)
              => Rejected

\* the page with one full and one small column at the default width has
\* been accepted
C24_Witness ==
    /\ config \in Configs
    /\ config.Pages = <<GoodPage>>
    /\ DOMAIN config.Auth.Users = {}
    /\ Accepted

\* the configuration has the one user bob, with a record, a secret key, the
\* page GoodPage and no assets path: only bob's credentials decide
OnlyBob ==
    /\ config \in Configs
    /\ DOMAIN config.Auth.Users = {<<"b", "o", "b">>}
    /\ config.Auth.Users[<<"b", "o", "b">>] # NilUser
    /\ config.Auth.SecretKey # <<>>
    /\ config.Pages = <<GoodPage>>
    /\ config.Server.AssetsPath = <<>>

\* C25: a user passes the check of its credentials exactly when it has a
\* plaintext password of at least 6 characters or a password hash that is
\* not empty
C25_PasswordOrHash ==
    (loaded # NotRun /\ OnlyBob) =>
        (Accepted <=>
            \/ Len(config.Auth.Users[<<"b", "o", "b">>].Password) >= 6
            \/ config.Auth.Users[<<"b", "o", "b">>].PasswordHashString # <<>>)

\* C26: a configuration with a user and no secret key is rejected; a
\* configuration with a username that is empty or shorter than 3 characters
\* is not accepted; a configuration without users meets neither check
C26_UserAccounts ==
    (loaded # NotRun /\ config \in Configs) =>
        /\ (DOMAIN config.Auth.Users # {} /\ config.Auth.SecretKey = <<>>)
              => Rejected
        /\ (\E username \in DOMAIN config.Auth.Users : Len(username) < 3)
              => ~Accepted
        /\ DOMAIN config.Auth.Users = {} =>
              loaded.err \notin
                  {"secret-key must be set when users are configured",
                    "user has no name",
                    "usernames must be at least 3 characters"}

\* C29: the validation of a decoded configuration ends with nil or with an
\* error, never with a panic
C29_NeverAborts == loaded # NotRun => loaded.err # Panic

\* ------------------------------------------------------------------------
\* ParseConfigVariables on placeholders of the type readFileFromEnv and of
\* unknown types
\* ------------------------------------------------------------------------

\* ${readFileFromEnv:B}: B is not in the environment
PieceFileUnset == <<"$", "{">> \o configVarTypeFileFromEnv \o <<":", "B", "}">>

\* ${readFileFromEnv:p}: the name fails ^[A-Z0-9_]+$
PieceFileLower == <<"$", "{">> \o configVarTypeFileFromEnv \o <<":", "p", "}">>

\* ${readFileFromEnv:M}: M holds the absolute path of a file that does not
\* exist
PieceFileMissing == <<"$", "{">> \o configVarTypeFileFromEnv \o <<":", "M", "}">>

\* ${foo:B}, ${foo:b-}: an unknown type with a name that is not in the
\* environment and with a name that fails ^[A-Z0-9_]+$
PieceUnknownUnset == <<"$", "{", "f", "o", "o", ":", "B", "}">>

PieceUnknownLower == <<"$", "{", "f", "o", "o", ":", "b", "-", "}">>

\* ${ENV:A}, ${s:s}: the types are compared as written
PieceUpperType == <<"$", "{", "E", "N", "V", ":", "A", "}">>

PieceShortType == <<"$", "{", "s", ":", "s", "}">>

FilePieces ==
    {PieceFile, PieceRelFile, PieceFileUnset, PieceFileLower, PieceFileMissing}

UnknownTypePieces ==
    {PieceUnknownType, PieceUnknownUnset, PieceUnknownLower, PieceUpperType,
      PieceShortType}

TypeDocuments ==
    UNION {[1..n -> FilePieces \cup UnknownTypePieces \cup PlainPieces] :
             n \in 0..MaxPieces}

InitTypes ==
    /\ WatcherIdle
    /\ doc \in TypeDocuments
    /\ pcv = NotRun
    /\ tree = <<>>
    /\ asm = NotRun
    /\ loaded = NotRun
    /\ config = NotRun
    /\ widget = NotRun
    /\ cli = NotRun

SpecTypes == InitTypes /\ [][NextVars]_vars

\* C27: the resolution of a placeholder ${readFileFromEnv:NAME} that the
\* pattern matches unescaped.  A name that fails ^[A-Z0-9_]+$ leaves the
\* text as it is, without an error; a name that is not in the environment,
\* a value that is not an absolute path and a file that cannot be read each
\* give their error and no bytes; otherwise the placeholder is replaced by
\* the contents of the file without the white space around them, the
\* character before the placeholder in place
C27_FileFromEnv ==
    pcv.err # "not run" =>
        \A i \in 1..Len(doc) :
            OnePlaceholderAt(doc, i) =>
                /\ doc[i] = PieceFileLower =>
                     pcv = [out |-> TextOf(doc), err |-> NoError]
                /\ doc[i] = PieceFileUnset =>
                     pcv = [out |-> <<>>,
                            err |-> "readFileFromEnv: environment variable not found"]
                /\ doc[i] = PieceRelFile =>
                     pcv = [out |-> <<>>,
                            err |-> "readFileFromEnv: file path is not absolute"]
                /\ doc[i] = PieceFileMissing =>
                     pcv = [out |-> <<>>,
                            err |-> "readFileFromEnv: reading file"]
                /\ doc[i] = PieceFile =>
                     pcv = [out |-> TextWith(doc, i, <<"k">>), err |-> NoError]

\* x${readFileFromEnv:P}x became xkx: the file /f holds " k" and a newline
C27_Witness ==
    /\ doc = <<PieceText, PieceFile, PieceText>>
    /\ SideFiles[EnvTable[<<"P">>]] = <<" ", "k", "\n">>
    /\ pcv = [out |-> <<"x", "k", "x">>, err |-> NoError]

\* the document holds placeholders, all of them of an unknown type
OnlyUnknownTypes ==
    /\ \E i \in 1..Len(doc) : doc[i] \in UnknownTypePieces
    /\ \A i \in 1..Len(doc) : doc[i] \in UnknownTypePieces \cup PlainPieces

\* C28 as stated: a text whose placeholders are all of an unknown type comes
\* back byte for byte, without an error
C28_PassThrough ==
    (pcv.err # "not run" /\ OnlyUnknownTypes) =>
        pcv = [out |-> TextOf(doc), err |-> NoError]

\* C28: a placeholder of an unknown type raises no error and comes back as
\* written, whatever its name, together with the character before it,
\* unless that character is a backslash: the backslash is taken out, as for
\* a placeholder of any type
C28_PassThroughUnlessEscaped ==
    (pcv.err # "not run" /\ OnlyUnknownTypes) =>
        pcv = [out |-> UnescapedFrom(doc, 1), err |-> NoError]

\* ${foo:B}\${foo:A} became ${foo:B}${foo:A}
C28_Witness ==
    /\ doc = <<PieceUnknownUnset, PieceBackslash, PieceUnknownType>>
    /\ pcv = [out |-> PieceUnknownUnset \o PieceUnknownType, err |-> NoError]

\* ------------------------------------------------------------------------
\* Properties of the watcher when a tracked file is replaced
\* ------------------------------------------------------------------------

\* nothing is left to do: no event waits, the event goroutine waits for
\* one, no timer is armed and no reassembly is under way
WatcherQuiet ==
    /\ mainPc = "returned"
    /\ ~watcherClosed
    /\ events = <<>>
    /\ evPc = "recv"
    /\ timer # "armed"
    /\ inflight = <<>>

\* C30: the root file includes a, a exists, every reassembly that was
\* triggered has completed and none has failed: a is subscribed, so that a
\* later write to it is seen
C30_LiveAgain ==
    (/\ WatcherQuiet
     /\ errs = 0
     /\ files[RootPath] = RootIncA
     /\ files[PathA] # NoFile) => PathA \in subs

\* ------------------------------------------------------------------------
\* Overlapping reassemblies and callbacks
\* ------------------------------------------------------------------------

\* the reassembly k passes lines 303-313 in this step
Commits(k) ==
    /\ inflight[k].phase = "parsed"
    /\ Len(inflight') = Len(inflight)
    /\ inflight'[k].phase = "locked"

\* no event is unprocessed, no timer is pending, no reassembly runs and none
\* has failed
OverlapQuiet ==
    /\ mainPc = "returned"
    /\ events = <<>>
    /\ evPc = "recv"
    /\ timer # "armed"
    /\ inflight = <<>>
    /\ errs = 0

\* the last-known bytes are the assembly of the tree fs, and they are what
\* onChange was last called with
Current(fs, contents, calls) ==
    /\ contents = Reassemble(fs).out
    /\ calls # <<>>
    /\ calls[Len(calls)] = contents

\* C31: a reassembly that read the tree before the one whose bytes are the
\* last-known ones leaves the last-known bytes as they are, and once the
\* watcher is quiet the last-known bytes, which are the bytes onChange was
\* last called with, are the assembly of the tree as it is on disk
C31_NoStaleOverwrite ==
    [][/\ \A k \in 1..Len(inflight) :
             Commits(k) /\ inflight[k].readAt < hist.lastRead
                 => lastContents' = lastContents
       /\ OverlapQuiet' => Current(files', lastContents', changes')]_vars

\* the onChange calls that have not returned: the one of line 380 and the
\* one of the reassembly that holds mu
OnChangeRunning ==
    (IF mainPc = "onChange" THEN 1 ELSE 0)
        + Cardinality({k \in 1..Len(inflight) :
                          /\ inflight[k].phase = "locked"
                          /\ inflight[k].calling})

\* C32: at most one onChange call runs at a time, and as long as the
\* onChange call of line 380 has not returned no reassembly has called
\* onChange
C32_OnChangeSerial ==
    /\ OnChangeRunning <= 1
    /\ mainPc # "returned" => Len(changes) = hist.initCalls

\* ------------------------------------------------------------------------
\* Subscriptions and the tracked include set
\* ------------------------------------------------------------------------

StageOrder == <<"substitute", "decode", "validate", "widgets", "theme">>

\* the i-th stage cannot succeed on the input of the run
StageFails(i) ==
    CASE i = 1 -> ParseConfigVariables(TextOf(doc)).err # NoError
      [] i = 2 -> config = Undecodable
      [] i = 3 -> \E order \in Orders(DOMAIN config.Auth.Users) :
                     IsConfigStateValid(config, order) # NoError
      [] i = 4 -> \E p \in 1..Len(config.Pages) :
                     \/ \E w \in 1..Len(config.Pages[p].HeadWidgets) :
                           ~config.Pages[p].HeadWidgets[w].initOk
                     \/ \E c \in 1..Len(config.Pages[p].Columns) :
                           \E w \in 1..Len(config.Pages[p].Columns[c].Widgets) :
                              ~config.Pages[p].Columns[c].Widgets[w].initOk
      [] i = 5 -> \/ ~config.Theme.ok
                  \/ \E k \in 1..Len(config.Theme.Presets) :
                        ~config.Theme.Presets[k].ok

\* C34: the stages run in the order substitution, decoding, validation,
\* widget initialization, theme initialization; a stage that fails is the
\* last to run, and the call then returns an error and no configuration
\* (or, when validation dereferences a null user, ends without a return);
\* widgets are initialized only for a configuration that passed
\* validation, and a call whose stages all succeed returns the
\* configuration
C34_StagesInOrder ==
    LET n == Len(loaded.ran)
    IN  /\ n <= Len(StageOrder)
        /\ loaded.ran = Sub(StageOrder, 1, n)
        /\ \A i \in 1..n :
              StageFails(i) =>
                 /\ n = i
                 /\ loaded.pc \in {"returned", "panicked"}
                 /\ loaded.pc = "returned" =>
                       loaded.err # NoError /\ loaded.result = "nil"
                 /\ loaded.pc = "panicked" => i = 3
        /\ loaded.initialized > 0 => n >= 4 /\ ~StageFails(3)
        /\ loaded.themes > 0 => n = 5 /\ ~StageFails(4)
        /\ (loaded.pc = "returned" /\ \A i \in 1..n : ~StageFails(i)) =>
              /\ n = 5
              /\ loaded.err = NoError
              /\ loaded.result = "config"

\* a configuration with widgets has failed validation: an error is
\* returned and no widget was initialized
C34_Witness ==
    /\ loaded.pc = "returned"
    /\ loaded.ran = <<"substitute", "decode", "validate">>
    /\ loaded.err \notin {NoError, Panic}
    /\ WidgetsInOrder(config.Pages, 1) # <<>>
    /\ loaded.initialized = 0
    /\ loaded.result = "nil"

\* ------------------------------------------------------------------------
\* IsConfigStateValid and the order of the users
\* ------------------------------------------------------------------------

\* what IsConfigStateValid may return for the configuration, over the
\* orders in which range may yield its users
Verdicts ==
    {IsConfigStateValid(config, order) :
        order \in Orders(DOMAIN config.Auth.Users)}

\* the first violation in the order pages present, secret key, assets path,
\* pages by index, the users left aside
FirstOutsideUsers ==
    IF Len(config.Pages) = 0 THEN "no pages configured"
    ELSE IF DOMAIN config.Auth.Users # {} /\ config.Auth.SecretKey = <<>>
    THEN "secret-key must be set when users are configured"
    ELSE IF config.Server.AssetsPath # <<>>
            /\ config.Server.AssetsPath \notin ExistingPaths
    THEN "assets directory does not exist"
    ELSE PagesError(config)

\* C35: what IsConfigStateValid returned is what it returns for every order
\* of the users, and it is the first violation in the order pages present,
\* secret key, users, assets path, pages by index
C35_Deterministic ==
    loaded # NotRun =>
        /\ Verdicts = {loaded.err}
        /\ (\A u \in DOMAIN config.Auth.Users :
               UserError(config, u) = NoError)
               => loaded.err = FirstOutsideUsers

\* ------------------------------------------------------------------------
\* The retry state of a widget
\* ------------------------------------------------------------------------

\* the regular next update time of the widget for a reading t of the clock:
\* a cache duration from t, the next full hour after t, or never
Regular(t) ==
    CASE widget.w.cacheType = "CacheTypeDuration" ->
            t + widget.w.cacheDuration
      [] widget.w.cacheType = "CacheTypeOnTheHour" ->
            CHOOSE h \in (t + 1)..(t + 60) : h % 60 = 0
      [] OTHER -> ZeroTime

Earlier(a, b) == IF a < b THEN a ELSE b

\* C36: the retry counter is within 0..5; a failed update adds one to it,
\* up to 5, and sets the next update time to the earlier of the back-off
\* time (the counter squared, in minutes from now) and the regular next
\* update time; a successful update resets the counter to 0 and sets the
\* regular next update time
C36_RetryState ==
    LET w == widget.w
        l == widget.last
    IN  /\ w.updateRetriedTimes \in 0..5
        /\ l.call \in {"failed", "ScheduleEarlyUpdate"} =>
              /\ w.updateRetriedTimes =
                    IF l.retried < 5 THEN l.retried + 1 ELSE 5
              /\ w.nextUpdate =
                    Earlier(l.now + w.updateRetriedTimes * w.updateRetriedTimes,
                            Regular(l.later))
        /\ l.call \in {"succeeded", "ScheduleNextUpdate"} =>
              /\ w.updateRetriedTimes = 0
              /\ w.nextUpdate = Regular(l.now)
        /\ l.call = "failed" => ~l.ret /\ w.Error = "error"
        /\ l.call = "succeeded" => l.ret /\ w.Error = "nil"

\* a sixth failed update in a row: the counter stays at 5, and the regular
\* next update time is taken because it comes before the back-off time
C36_Witness ==
    /\ widget.last.call = "failed"
    /\ widget.last.retried = 5
    /\ widget.w.updateRetriedTimes = 5
    /\ widget.w.cacheType = "CacheTypeDuration"
    /\ widget.w.nextUpdate = Regular(widget.last.later)
    /\ widget.w.nextUpdate < widget.last.now + 25

\* ------------------------------------------------------------------------
\* The commands of the usage text
\* ------------------------------------------------------------------------

\* the intent the usage text gives a command line without flags, "none"
\* when the command line is none of the usage text
UsageIntent(args) ==
    IF args = <<>> THEN "IntentServe"
    ELSE IF args = <<"config:validate">> THEN "IntentConfigValidate"
    ELSE IF args = <<"config:print">> THEN "IntentConfigPrint"
    ELSE IF args = <<"sensors:print">> THEN "IntentSensorsPrint"
    ELSE IF args = <<"diagnose">> THEN "IntentDiagnose"
    ELSE IF args = <<"secret:make">> THEN "IntentSecretMake"
    ELSE IF Len(args) = 2 /\ args[1] = "password:hash"
    THEN "IntentPasswordHash"
    ELSE IF Len(args) = 2 /\ args[1] = "mountpoint:info"
    THEN "IntentMountpointInfo"
    ELSE "none"

\* the command line holds no flag and is not a request for the version
PlainCommandLine(args) ==
    /\ \A i \in 1..Len(args) :
          args[i] \notin {"-v", "--version", "-config", "-x", "--"}
    /\ args # <<"version">>

\* C37: a command line without flags gets the intent the usage text gives
\* it, and an unknown-command error when the usage text gives it none
C37_CommandsToIntents ==
    (cli.options # NotRun /\ PlainCommandLine(cli.args)) =>
        IF UsageIntent(cli.args) = "none"
        THEN cli.options.err = unknownCommandErr
        ELSE /\ cli.options.err = NoError
             /\ cli.options.Intent = UsageIntent(cli.args)
====
